---- MODULE Spec2Model ----
(***************************************************************************)
(* Model of the crawl subsystem of url-reader-mcp: the network security    *)
(* gate (utils/network.ts), the secure fetch service (services/fetch.ts)   *)
(* and the breadth-first crawl engine (crawler/bfs-crawler.ts).            *)
(*                                                                         *)
(* Text is modelled as a sequence of one-character strings, so that the    *)
(* string operations of the source (split, padStart, substring, parseInt)  *)
(* are computed as the source computes them.                               *)
(***************************************************************************)
EXTENDS Integers, Sequences, FiniteSets, TLC

VARIABLES
    \* ---- network gate (utils/network.ts) ----
    netAddr,      \* the address under test, as a value: [form, o] or [form, g, style]
    netIp,        \* the text handed to isPrivateIP
    netVerdict,   \* "none" before the call, then "private" or "public"
    dnsA,         \* what dns.resolve4 answers for the hostname: [ok, addrs]
    dnsAAAA,      \* what dns.resolve6 answers for the hostname: [ok, addrs]
    vhPc,         \* validateHostname: "idle", "resolve4", "resolve6", "check", "accepted", "blocked"
    allIPs,       \* validateHostname's local allIPs (texts)
    \* ---- secure fetch (services/fetch.ts) ----
    sfPc,         \* safeFetch: "idle", "validate", "fetch", "response", "done", "failed"
    sfHost,       \* host the next HTTP request goes to
    sfValidated,  \* hosts validateHostname accepted in this call
    sfRequested,  \* hosts an HTTP request was sent to in this call
    sfRedirects,  \* redirects followed by fetch() in this call
    sfError,      \* "none" or the kind of the error thrown
    \* ---- BFS crawl (crawler/bfs-crawler.ts) ----
    crawlPc,      \* "idle", "loop", "returned", "threw"
    opts,         \* the resolved CrawlOptions of the call
    queue,        \* the BFS queue: sequence of [url, depth]
    visited,      \* set of visited urls
    pages,        \* sequence of [url, depth, tokens, links_found]
    totalTokens,
    maxDepthReached,
    stoppedReason,
    extractCalls, \* history: how many times extractPage was called per url
    extractOk,    \* history: urls for which extractPage returned a result
    seedFailed,   \* history: extractPage failed for the start url
    budgetTripped, \* history: the loop was left by the break of the budget check
    \* services/queue.ts: QueueManager
    globalConcurrency, \* concurrency of globalQueue
    globalQueue,       \* tasks waiting in globalQueue, oldest first
    domainQueues,      \* domain -> its queue: tasks waiting, end of the current interval
    tasks,             \* task -> domain, position in enqueue, time its fn started
    now,               \* the clock, in ms
    drainPc,           \* position of the drain() call
    drainWaiting,      \* domains whose onIdle() promise drain() still awaits
    \* ---- pure functions of utils/url.ts and crawler/link-resolver.ts ----
    callPc,            \* "idle" before the call, "returned" after it
    callArgs,          \* the arguments of the call
    callResult,        \* what the call returned
    \* ---- services/fetch.ts: the safeFetch calls behind the queue ----
    bodyReading,       \* tasks whose safeFetch call is reading the response body
    \* ---- extractor/pipeline.ts and services/cache.ts ----
    pageCache,         \* the page entries of cacheManager: key and cached page
    epCalls,           \* the extractPage calls: position, arguments, result
    \* ---- crawl calls running side by side ----
    crawls,            \* crawl call -> its position and its local BFS state
    siteDown           \* the urls of the web whose fetch fails

netVars == <<netAddr, netIp, netVerdict, dnsA, dnsAAAA, vhPc, allIPs>>
sfVars == <<sfPc, sfHost, sfValidated, sfRequested, sfRedirects, sfError>>
crawlVars == <<crawlPc, opts, queue, visited, pages, totalTokens,
               maxDepthReached, stoppedReason, extractCalls, extractOk, seedFailed,
               budgetTripped>>
drainVars == <<drainPc, drainWaiting>>
qmVars == <<globalConcurrency, globalQueue, domainQueues, tasks, now, drainVars>>
utilVars == <<callPc, callArgs, callResult>>
flightVars == <<bodyReading>>
cacheVars == <<pageCache, epCalls>>
concVars == <<crawls, siteDown>>
svcVars == <<flightVars, cacheVars, concVars>>
vars == <<netVars, sfVars, crawlVars, qmVars, utilVars, svcVars>>

(***************************************************************************)
(* String primitives of the JavaScript runtime, on sequences of characters *)
(***************************************************************************)
HexDigits == <<"0","1","2","3","4","5","6","7","8","9","a","b","c","d","e","f">>
UpperHex == <<"0","1","2","3","4","5","6","7","8","9","A","B","C","D","E","F">>

\* parseInt's NaN; every comparison the source makes with NaN is false.
NaN == -1

\* Value of a character as a digit, or NaN when it is no digit at all.
DigitVal(c) ==
    IF \E i \in 1..16 : HexDigits[i] = c
    THEN (CHOOSE i \in 1..16 : HexDigits[i] = c) - 1
    ELSE IF \E i \in 1..16 : UpperHex[i] = c
    THEN (CHOOSE i \in 1..16 : UpperHex[i] = c) - 1
    ELSE NaN

\* The characters of a string literal, one by one.
Chars(str) == [i \in 1..Len(str) |-> SubSeq(str, i, i)]

LowerAlpha == Chars("abcdefghijklmnopqrstuvwxyz")
UpperAlpha == Chars("ABCDEFGHIJKLMNOPQRSTUVWXYZ")

toLowerCase(s) ==
    [i \in 1..Len(s) |->
        IF \E k \in 1..26 : UpperAlpha[k] = s[i]
        THEN LowerAlpha[CHOOSE k \in 1..26 : UpperAlpha[k] = s[i]]
        ELSE s[i]]

\* s.substring(a, b), zero-based, end exclusive and clamped to the length.
substring(s, a, b) ==
    LET hi == IF b > Len(s) THEN Len(s) ELSE b
    IN  IF a >= hi THEN <<>> ELSE SubSeq(s, a + 1, hi)

substringFrom(s, a) == substring(s, a, Len(s))

startsWith(s, p) == Len(s) >= Len(p) /\ SubSeq(s, 1, Len(p)) = p

RECURSIVE IndexOf(_, _, _)
\* First zero-based index >= from at which sep occurs in s, or -1.
IndexOf(s, sep, from) ==
    IF from + Len(sep) > Len(s) THEN -1
    ELSE IF SubSeq(s, from + 1, from + Len(sep)) = sep THEN from
    ELSE IndexOf(s, sep, from + 1)

RECURSIVE split(_, _)
\* s.split(sep) for a non-empty separator.
split(s, sep) ==
    LET i == IndexOf(s, sep, 0)
    IN  IF i = -1 THEN <<s>>
        ELSE <<substring(s, 0, i)>> \o split(substringFrom(s, i + Len(sep)), sep)

RECURSIVE join(_, _)
join(parts, sep) ==
    IF Len(parts) = 0 THEN <<>>
    ELSE IF Len(parts) = 1 THEN parts[1]
    ELSE parts[1] \o sep \o join(Tail(parts), sep)

RECURSIVE padStart(_, _, _)
padStart(s, n, c) == IF Len(s) >= n THEN s ELSE padStart(<<c>> \o s, n, c)

RECURSIVE ParseDigits(_, _, _, _)
ParseDigits(s, radix, i, acc) ==
    IF i > Len(s) THEN acc
    ELSE LET v == DigitVal(s[i])
         IN  IF v = NaN \/ v >= radix THEN acc
             ELSE ParseDigits(s, radix, i + 1, acc * radix + v)

\* parseInt(s, radix): the longest prefix of digits of the radix; NaN when
\* the text does not start with such a digit.
parseInt(s, radix) ==
    IF Len(s) = 0 THEN NaN
    ELSE LET v == DigitVal(s[1])
         IN  IF v = NaN \/ v >= radix THEN NaN ELSE ParseDigits(s, radix, 1, 0)

(***************************************************************************)
(* 32-bit integer arithmetic of the bitwise operators.  An unsigned 32-bit *)
(* number is kept as its two 16-bit halves [hi, lo].                       *)
(***************************************************************************)
Half == 65536

RECURSIVE Pow2(_)
Pow2(k) == IF k = 0 THEN 1 ELSE 2 * Pow2(k - 1)

\* The integer a bitwise operator sees; NaN converts to 0.
ToInt(x) == IF x = NaN THEN 0 ELSE x

RECURSIVE BitOp(_, _, _, _)
\* Bitwise combination of the low n bits of two numbers, bit by bit.
BitOp(a, b, isOr, n) ==
    IF n = 0 THEN 0
    ELSE LET x == a % 2
             y == b % 2
             bit == IF isOr THEN (IF x + y > 0 THEN 1 ELSE 0)
                            ELSE (IF x + y = 2 THEN 1 ELSE 0)
         IN  bit + 2 * BitOp(a \div 2, b \div 2, isOr, n - 1)

BitOr16(a, b) == BitOp(a, b, TRUE, 16)
BitAnd(a, b) == BitOp(ToInt(a), ToInt(b), FALSE, 31)
ShiftRight(x, k) == ToInt(x) \div Pow2(k)

\* (a << 24 | b << 16 | c << 8 | d) >>> 0: each shifted operand keeps the
\* bits that stay inside 32 bits.
Or4Shifted(a, b, c, d) ==
    [hi |-> BitOr16(BitOr16(BitOr16((ToInt(a) % 256) * 256, ToInt(b) % Half),
                            (ToInt(c) \div 256) % Half),
                    (ToInt(d) \div Half) % Half),
     lo |-> BitOr16((ToInt(c) % 256) * 256, ToInt(d) % Half)]

Geq32(x, y) == x.hi > y.hi \/ (x.hi = y.hi /\ x.lo >= y.lo)
Leq32(x, y) == Geq32(y, x)

(***************************************************************************)
(* Rendering of addresses as text (what the resolver library prints)       *)
(***************************************************************************)
RECURSIVE DecStr(_)
DecStr(n) == IF n < 10 THEN <<HexDigits[n + 1]>>
             ELSE DecStr(n \div 10) \o <<HexDigits[(n % 10) + 1]>>

RECURSIVE HexStr(_)
HexStr(n) == IF n < 16 THEN <<HexDigits[n + 1]>>
             ELSE HexStr(n \div 16) \o <<HexDigits[(n % 16) + 1]>>

Dotted(a, b, c, d) ==
    DecStr(a) \o <<".">> \o DecStr(b) \o <<".">> \o DecStr(c) \o <<".">> \o DecStr(d)

(***************************************************************************)
(* utils/network.ts                                                        *)
(***************************************************************************)
ipv4ToInt(ip) ==
    LET parts == split(ip, <<".">>)
        part(i) == IF i <= Len(parts) THEN parseInt(parts[i], 10) ELSE NaN
    IN  Or4Shifted(part(1), part(2), part(3), part(4))

IPV4_PRIVATE_RANGES ==
    << [start |-> ipv4ToInt(Dotted(127, 0, 0, 0)),  end |-> ipv4ToInt(Dotted(127, 255, 255, 255))],
       [start |-> ipv4ToInt(Dotted(10, 0, 0, 0)),   end |-> ipv4ToInt(Dotted(10, 255, 255, 255))],
       [start |-> ipv4ToInt(Dotted(172, 16, 0, 0)), end |-> ipv4ToInt(Dotted(172, 31, 255, 255))],
       [start |-> ipv4ToInt(Dotted(192, 168, 0, 0)), end |-> ipv4ToInt(Dotted(192, 168, 255, 255))],
       [start |-> ipv4ToInt(Dotted(169, 254, 0, 0)), end |-> ipv4ToInt(Dotted(169, 254, 255, 255))],
       [start |-> ipv4ToInt(Dotted(0, 0, 0, 0)),    end |-> ipv4ToInt(Dotted(0, 255, 255, 255))],
       [start |-> ipv4ToInt(Dotted(100, 64, 0, 0)), end |-> ipv4ToInt(Dotted(100, 127, 255, 255))],
       [start |-> ipv4ToInt(Dotted(192, 0, 0, 0)),  end |-> ipv4ToInt(Dotted(192, 0, 0, 255))],
       [start |-> ipv4ToInt(Dotted(198, 18, 0, 0)), end |-> ipv4ToInt(Dotted(198, 19, 255, 255))] >>

ZeroGroup == <<"0","0","0","0">>

expandIPv6(ip) ==
    LET withoutZone == split(ip, <<"%">>)[1]
        halves == split(withoutZone, <<":",":">>)
        colonSplit(h) == IF Len(h) > 0 THEN split(h, <<":">>) ELSE <<>>
        groups ==
            IF Len(halves) = 2
            THEN LET left == colonSplit(halves[1])
                     right == colonSplit(halves[2])
                     missingGroups == 8 - (Len(left) + Len(right))
                     middle == [i \in 1..missingGroups |-> ZeroGroup]
                 IN  left \o middle \o right
            ELSE split(withoutZone, <<":">>)
    IN  join([i \in 1..Len(groups) |-> toLowerCase(padStart(groups[i], 4, "0"))], <<":">>)
LoopbackExpanded == join([i \in 1..8 |-> IF i = 8 THEN <<"0","0","0","1">> ELSE ZeroGroup], <<":">>)
UnspecifiedExpanded == join([i \in 1..8 |-> ZeroGroup], <<":">>)
MappedPrefix ==
    join([i \in 1..6 |-> IF i = 6 THEN <<"f","f","f","f">> ELSE ZeroGroup], <<":">>) \o <<":">>

\* Mutant of isIPv4Private: the 172.16.0.0/12 block ends at 172.16.255.255.
isIPv4Private_ShortClassB(ip) ==
    LET ipInt == ipv4ToInt(ip)
    IN  \E i \in 1..Len(IPV4_PRIVATE_RANGES) :
            /\ Geq32(ipInt, IPV4_PRIVATE_RANGES[i].start)
            /\ Leq32(ipInt, IF i = 3 THEN ipv4ToInt(Dotted(172, 16, 255, 255))
                                     ELSE IPV4_PRIVATE_RANGES[i].end)

isIPv4Private(ip) ==
    LET ipInt == ipv4ToInt(ip)
    IN  \E i \in 1..Len(IPV4_PRIVATE_RANGES) :
            /\ Geq32(ipInt, IPV4_PRIVATE_RANGES[i].start)
            /\ Leq32(ipInt, IPV4_PRIVATE_RANGES[i].end)

isIPv6Private(expanded) ==
    IF expanded = LoopbackExpanded THEN TRUE
    ELSE IF expanded = UnspecifiedExpanded THEN TRUE
    ELSE LET firstTwoChars == substring(expanded, 0, 2)
             firstGroup == parseInt(substring(expanded, 0, 4), 16)
         IN  IF firstTwoChars = <<"f","c">> \/ firstTwoChars = <<"f","d">> THEN TRUE
             ELSE IF firstGroup >= 65152 /\ firstGroup <= 65215 THEN TRUE   \* 0xfe80 .. 0xfebf
             ELSE IF startsWith(expanded, MappedPrefix)
                  THEN LET ipv4HexPart == substringFrom(expanded, 30)
                           hexGroups == split(ipv4HexPart, <<":">>)
                       IN  IF Len(hexGroups) = 2
                           THEN LET highWord == parseInt(hexGroups[1], 16)
                                    lowWord == parseInt(hexGroups[2], 16)
                                    ipv4 == Dotted(BitAnd(ShiftRight(highWord, 8), 255),
                                                   BitAnd(highWord, 255),
                                                   BitAnd(ShiftRight(lowWord, 8), 255),
                                                   BitAnd(lowWord, 255))
                                IN  isIPv4Private(ipv4)
                           ELSE FALSE
                  ELSE FALSE

isPrivateIP(ip) ==
    IF \E i \in 1..Len(ip) : ip[i] = ":"
    THEN isIPv6Private(expandIPv6(ip))
    ELSE isIPv4Private(ip)

\* validateHostname after both lookups: the error it throws, or "ok".
checkAllIPs(ips) ==
    IF Len(ips) = 0 THEN "SecurityError"
    ELSE IF \E i \in 1..Len(ips) : isPrivateIP(ips[i]) THEN "SecurityError"
    ELSE "ok"
(***************************************************************************)
(* Addresses as values, and the texts they are written as                  *)
(***************************************************************************)
NoGroups == <<0, 0, 0, 0, 0, 0, 0, 0>>
NoOctets == <<0, 0, 0, 0>>

V4(a, b, c, d) == [form |-> "v4", o |-> <<a, b, c, d>>, g |-> NoGroups, style |-> "dotted"]
MappedOf(addr, form) == [addr EXCEPT !.form = form]
V6(g, style) == [form |-> "v6", o |-> NoOctets, g |-> g, style |-> style]

RECURSIVE ZeroRun(_, _)
\* Number of consecutive zero groups of g from index i on.
ZeroRun(g, i) == IF i > Len(g) \/ g[i] # 0 THEN 0 ELSE 1 + ZeroRun(g, i + 1)

HexGroups(g, from, to) == [i \in 1..(to - from + 1) |-> HexStr(g[from + i - 1])]

\* The canonical compressed text: the leftmost longest run of two or more
\* zero groups is written "::".
Compressed(g) ==
    LET best == CHOOSE i \in 1..8 :
                    \A j \in 1..8 : \/ ZeroRun(g, i) > ZeroRun(g, j)
                                    \/ (ZeroRun(g, i) = ZeroRun(g, j) /\ i <= j)
        n == ZeroRun(g, best)
    IN  IF n < 2 THEN join(HexGroups(g, 1, 8), <<":">>)
        ELSE join(HexGroups(g, 1, best - 1), <<":">>) \o <<":", ":">>
                 \o join(HexGroups(g, best + n, 8), <<":">>)

toUpperCase(s) ==
    [i \in 1..Len(s) |->
        IF \E k \in 1..26 : LowerAlpha[k] = s[i]
        THEN UpperAlpha[CHOOSE k \in 1..26 : LowerAlpha[k] = s[i]]
        ELSE s[i]]

Render(addr) ==
    CASE addr.form = "v4" -> Dotted(addr.o[1], addr.o[2], addr.o[3], addr.o[4])
      [] addr.form = "mappedDotted" ->
            <<":", ":", "f", "f", "f", "f", ":">>
                \o Dotted(addr.o[1], addr.o[2], addr.o[3], addr.o[4])
      [] addr.form = "mappedHex" ->
            <<":", ":", "f", "f", "f", "f", ":">>
                \o HexStr(addr.o[1] * 256 + addr.o[2]) \o <<":">>
                \o HexStr(addr.o[3] * 256 + addr.o[4])
      [] addr.form = "v6" /\ addr.style = "compressed" -> Compressed(addr.g)
      [] addr.form = "v6" /\ addr.style = "full" -> join(HexGroups(addr.g, 1, 8), <<":">>)
      [] addr.form = "v6" /\ addr.style = "upper" ->
            toUpperCase(join([i \in 1..8 |-> padStart(HexStr(addr.g[i]), 4, "0")], <<":">>))

\* The blocked ranges as address blocks: the nine IPv4 blocks by prefix.
InBlockedV4Block(o) ==
    \/ o[1] = 127
    \/ o[1] = 10
    \/ (o[1] = 172 /\ o[2] \div 16 = 1)
    \/ (o[1] = 192 /\ o[2] = 168)
    \/ (o[1] = 169 /\ o[2] = 254)
    \/ o[1] = 0
    \/ (o[1] = 100 /\ o[2] \div 64 = 1)
    \/ (o[1] = 192 /\ o[2] = 0 /\ o[3] = 0)
    \/ (o[1] = 198 /\ o[2] \div 2 = 9)

\* ::1, ::, fc00::/7 and fe80::/10 by the bits of the first group.
InBlockedV6Block(g) ==
    \/ g = <<0, 0, 0, 0, 0, 0, 0, 1>>
    \/ g = NoGroups
    \/ g[1] \div 512 = 126
    \/ g[1] \div 64 = 1018

IsMappedGroups(g) == SubSeq(g, 1, 5) = <<0, 0, 0, 0, 0>> /\ g[6] = 65535

\* Whether the address, as a value, is private/reserved.
PrivateAddress(addr) ==
    IF addr.form = "v6" THEN InBlockedV6Block(addr.g) ELSE InBlockedV4Block(addr.o)

FirstOctets == {0, 1, 9, 10, 11, 100, 126, 127, 128, 169, 172, 192, 198, 223, 255}
SecondOctets == {0, 1, 15, 16, 17, 18, 19, 20, 31, 32, 63, 64, 127, 128, 168, 169, 253, 254, 255}
ThirdOctets == {0, 1, 255}
FourthOctets == {0, 255}
V4Values == {V4(a, b, c, d) : a \in FirstOctets, b \in SecondOctets,
                              c \in ThirdOctets, d \in FourthOctets}

FirstGroups == {0, 1, 252, 4072, 8193, 9735, 64511, 64512, 64767, 64768, 65023,
                65024, 65151, 65152, 65153, 65215, 65216, 65280, 65535}
V6Groups == {<<a, b, 0, 0, 0, f, s, e>> :
                a \in FirstGroups, b \in {0, 3512}, f \in {0, 65535},
                s \in {0, 32512}, e \in {0, 1, 2}}
V6Values == {V6(g, st) : g \in {x \in V6Groups : ~IsMappedGroups(x)},
                         st \in {"compressed", "full", "upper"}}

AddrInputs ==
    V4Values \cup {MappedOf(a, f) : a \in V4Values, f \in {"mappedDotted", "mappedHex"}}
             \cup V6Values

(***************************************************************************)
(* Values the parts of the model have while another part is exercised      *)
(***************************************************************************)
NoAnswer == [ok |-> FALSE, addrs |-> <<>>]

NetIdle ==
    /\ netAddr = V4(0, 0, 0, 0)
    /\ netIp = <<>>
    /\ netVerdict = "none"
    /\ dnsA = NoAnswer
    /\ dnsAAAA = NoAnswer
    /\ vhPc = "idle"
    /\ allIPs = <<>>

FetchIdle ==
    /\ sfPc = "idle"
    /\ sfHost = "none"
    /\ sfValidated = {}
    /\ sfRequested = {}
    /\ sfRedirects = 0
    /\ sfError = "none"

NoOptions == [maxTokens |-> 0, allowedDomains |-> {}, includePatterns |-> {},
              excludePatterns |-> {}, start |-> "none"]

CrawlIdle ==
    /\ crawlPc = "idle"
    /\ opts = NoOptions
    /\ queue = <<>>
    /\ visited = {}
    /\ pages = <<>>
    /\ totalTokens = 0
    /\ maxDepthReached = 0
    /\ stoppedReason = "no_more_links"
    /\ extractCalls = <<>>
    /\ extractOk = {}
    /\ seedFailed = FALSE
    /\ budgetTripped = FALSE

\* config.maxConcurrent and config.perDomainInterval (ms).
maxConcurrent == 3
perDomainInterval == 2000

\* The tasks passed to enqueue, in the order of the calls.
TaskOrder == <<"t1", "t2", "t3", "t4">>
TaskIds == {TaskOrder[i] : i \in 1..Len(TaskOrder)}
QueueDomains == {"a.example", "b.example", "c.example"}

\* A domain for which getDomainQueue has not been called yet.
NoDomainQueue == [created |-> FALSE, queue |-> <<>>, intervalEnd |-> 0]

\* The promise enqueue returns, while it has not settled.
PendingPromise == [kind |-> "pending", value |-> "none"]

NewTask == [domain |-> "none", state |-> "new", startedAt |-> 0, promise |-> PendingPromise]

\* new QueueManager(): no domain queue yet, nothing enqueued.
QueueIdle ==
    /\ globalConcurrency = maxConcurrent
    /\ globalQueue = <<>>
    /\ domainQueues = [d \in QueueDomains |-> NoDomainQueue]
    /\ tasks = [t \in TaskIds |-> NewTask]
    /\ now = 0
    /\ drainPc = "idle"
    /\ drainWaiting = {}

\* No call of a pure function is being followed.
UtilIdle ==
    /\ callPc = "idle"
    /\ callArgs = <<>>
    /\ callResult = <<>>

\* No safeFetch call is under way, no extractPage call was made and the
\* page cache is empty.
SvcIdle ==
    /\ bodyReading = {}
    /\ pageCache = {}
    /\ epCalls = <<>>
    /\ crawls = <<>>
    /\ siteDown = {}

(***************************************************************************)
(* isPrivateIP applied to one address text                                 *)
(***************************************************************************)
InitIP ==
    /\ netAddr \in AddrInputs
    /\ netIp = Render(netAddr)
    /\ netVerdict = "none"
    /\ dnsA = NoAnswer /\ dnsAAAA = NoAnswer /\ vhPc = "idle" /\ allIPs = <<>>
    /\ FetchIdle
    /\ CrawlIdle
    /\ QueueIdle
    /\ UtilIdle
    /\ SvcIdle

CallIsPrivateIP ==
    /\ netVerdict = "none"
    /\ netVerdict' = IF isPrivateIP(netIp) THEN "private" ELSE "public"
    /\ UNCHANGED <<netAddr, netIp, dnsA, dnsAAAA, vhPc, allIPs, sfVars, crawlVars, qmVars, utilVars, svcVars>>

NextIP == CallIsPrivateIP

SpecIP == InitIP /\ [][NextIP]_vars
\* C3: for every IPv4 address a.b.c.d, isPrivateIP of the IPv4-mapped
\* address ::ffff:a.b.c.d, written in dotted or in hexadecimal form, is the
\* answer isPrivateIP gives for a.b.c.d.
C3_MappedAnswersAsIPv4 ==
    (netVerdict # "none" /\ netAddr.form \in {"mappedDotted", "mappedHex"})
        => ((netVerdict = "private") <=> isPrivateIP(Render(MappedOf(netAddr, "v4"))))

\* C4: an IPv4 address is classified private exactly when it lies in one of
\* the nine blocked blocks, and a non-mapped IPv6 address exactly when it is
\* ::1, ::, in fc00::/7 or in fe80::/10.
C4_ExactlyTheBlockedRanges ==
    (netVerdict # "none" /\ netAddr.form \in {"v4", "v6"})
        => ((netVerdict = "private") <=> PrivateAddress(netAddr))

C4_Witness ==
    /\ netVerdict = "private"
    /\ netAddr.form = "v4"
    /\ netAddr.o = <<172, 31, 255, 255>>
(***************************************************************************)
(* validateHostname: A lookup, AAAA lookup, then the check of every address*)
(***************************************************************************)
MaxAnswers == 2

V4Pool == {V4(8, 8, 8, 8), V4(93, 184, 216, 34), V4(10, 0, 0, 1), V4(127, 0, 0, 1)}
V6Pool == {V6(<<9735, 63664, 16388, 2048, 0, 0, 0, 8206>>, "compressed"),
           V6(<<0, 0, 0, 0, 0, 0, 0, 1>>, "compressed"),
           V6(<<65152, 0, 0, 0, 0, 0, 0, 1>>, "compressed"),
           MappedOf(V4(127, 0, 0, 1), "mappedDotted"),
           MappedOf(V4(8, 8, 8, 8), "mappedDotted")}

SeqsUpTo(S, n) == UNION {[1..k -> S] : k \in 1..n}

\* A lookup rejects (no records, resolver unreachable) or returns addresses.
Answers(pool) == {NoAnswer} \cup {[ok |-> TRUE, addrs |-> a] : a \in SeqsUpTo(pool, MaxAnswers)}

Texts(addrs) == [i \in 1..Len(addrs) |-> Render(addrs[i])]

InitDNS ==
    /\ netAddr = V4(0, 0, 0, 0) /\ netIp = <<>> /\ netVerdict = "none"
    /\ dnsA \in Answers(V4Pool)
    /\ dnsAAAA \in Answers(V6Pool)
    /\ vhPc = "resolve4"
    /\ allIPs = <<>>
    /\ FetchIdle
    /\ CrawlIdle
    /\ QueueIdle
    /\ UtilIdle
    /\ SvcIdle

Resolve4 ==
    /\ vhPc = "resolve4"
    /\ allIPs' = IF dnsA.ok THEN allIPs \o Texts(dnsA.addrs) ELSE allIPs
    /\ vhPc' = "resolve6"
    /\ UNCHANGED <<netAddr, netIp, netVerdict, dnsA, dnsAAAA, sfVars, crawlVars, qmVars, utilVars, svcVars>>

Resolve6 ==
    /\ vhPc = "resolve6"
    /\ allIPs' = IF dnsAAAA.ok THEN allIPs \o Texts(dnsAAAA.addrs) ELSE allIPs
    /\ vhPc' = "check"
    /\ UNCHANGED <<netAddr, netIp, netVerdict, dnsA, dnsAAAA, sfVars, crawlVars, qmVars, utilVars, svcVars>>

CheckResolved ==
    /\ vhPc = "check"
    /\ vhPc' = IF checkAllIPs(allIPs) = "ok" THEN "accepted" ELSE "blocked"
    /\ UNCHANGED <<netAddr, netIp, netVerdict, dnsA, dnsAAAA, allIPs, sfVars, crawlVars, qmVars, utilVars, svcVars>>

NextDNS == Resolve4 \/ Resolve6 \/ CheckResolved

SpecDNS == InitDNS /\ [][NextDNS]_vars

\* The addresses the two lookups returned; a failed lookup contributes none.
ResolvedUnion ==
    {dnsA.addrs[i] : i \in 1..Len(dnsA.addrs)}
        \cup {dnsAAAA.addrs[i] : i \in 1..Len(dnsAAAA.addrs)}

\* C2: validateHostname succeeds if and only if the union of the addresses
\* of the A and of the AAAA lookup is non-empty and holds no private or
\* reserved address; otherwise it fails with a security-block error.
C2_AcceptsIffAllPublic ==
    vhPc \in {"accepted", "blocked"}
        => ((vhPc = "accepted")
                <=> (ResolvedUnion # {} /\ \A a \in ResolvedUnion : ~PrivateAddress(a)))
(***************************************************************************)
(* services/fetch.ts: safeFetch                                            *)
(***************************************************************************)
\* config.maxRedirects (MAX_REDIRECTS, default 5); safeFetch never reads it.
maxRedirects == 5

\* fetch() with redirect: "follow" follows redirects by itself and gives up
\* with a network error when a request has already been redirected 20 times.
FetchRedirectLimit == 20

FetchHosts == {"pub.example", "other.example", "internal.example"}
Protocols == {"http:", "https:", "ftp:"}

\* What the resolver answers for each host: <<A answer, AAAA answer>>.
HostDns(h) ==
    CASE h = "pub.example" ->
            <<[ok |-> TRUE, addrs |-> <<V4(93, 184, 216, 34)>>], NoAnswer>>
      [] h = "other.example" ->
            <<[ok |-> TRUE, addrs |-> <<V4(8, 8, 8, 8)>>],
              [ok |-> TRUE, addrs |-> <<V6(<<9735, 63664, 16388, 2048, 0, 0, 0, 8206>>, "compressed")>>]>>
      [] h = "internal.example" ->
            <<[ok |-> TRUE, addrs |-> <<V4(10, 0, 0, 1)>>], NoAnswer>>

\* validateHostname(hostname) as one call: "ok" or the error it throws.
validateHostname(h) ==
    LET a == HostDns(h)[1]
        aaaa == HostDns(h)[2]
        ips == (IF a.ok THEN Texts(a.addrs) ELSE <<>>)
                   \o (IF aaaa.ok THEN Texts(aaaa.addrs) ELSE <<>>)
    IN  checkAllIPs(ips)

InitFetch ==
    /\ NetIdle
    /\ FetchIdle
    /\ CrawlIdle
    /\ QueueIdle
    /\ UtilIdle
    /\ SvcIdle

\* safeFetch(url), steps 1 and 2: parse the url, accept http: and https: only.
SafeFetchCall(h, protocol, wellFormed) ==
    /\ sfPc = "idle"
    /\ sfValidated' = {}
    /\ sfRequested' = {}
    /\ sfRedirects' = 0
    /\ IF ~wellFormed
       THEN sfPc' = "failed" /\ sfError' = "TypeError" /\ sfHost' = "none"
       ELSE IF protocol # "http:" /\ protocol # "https:"
       THEN sfPc' = "failed" /\ sfError' = "FetchError" /\ sfHost' = h
       ELSE sfPc' = "validate" /\ sfError' = "none" /\ sfHost' = h
    /\ UNCHANGED <<netVars, crawlVars, qmVars, utilVars, svcVars>>

\* Step 3: validateHostname(parsedUrl.hostname), once, for the url's host.
SafeFetchValidate ==
    /\ sfPc = "validate"
    /\ IF validateHostname(sfHost) = "ok"
       THEN /\ sfValidated' = sfValidated \cup {sfHost}
            /\ sfPc' = "fetch"
            /\ sfError' = "none"
       ELSE /\ sfValidated' = sfValidated
            /\ sfPc' = "failed"
            /\ sfError' = "SecurityError"
    /\ UNCHANGED <<sfHost, sfRequested, sfRedirects, netVars, crawlVars, qmVars, utilVars, svcVars>>

\* Step 4: inside the queued task fetch() sends an HTTP request to the
\* current target: the url's host, or the target of the last redirect.
FetchSendRequest ==
    /\ sfPc = "fetch"
    /\ sfRequested' = sfRequested \cup {sfHost}
    /\ sfPc' = "response"
    /\ UNCHANGED <<sfHost, sfValidated, sfRedirects, sfError, netVars, crawlVars, qmVars, utilVars, svcVars>>

\* The server answers 3xx with a Location on host h: fetch() follows it.
FetchFollowRedirect(h) ==
    /\ sfPc = "response"
    /\ IF sfRedirects < FetchRedirectLimit
       THEN /\ sfRedirects' = sfRedirects + 1
            /\ sfHost' = h
            /\ sfPc' = "fetch"
            /\ sfError' = "none"
       ELSE /\ sfRedirects' = sfRedirects
            /\ sfHost' = sfHost
            /\ sfPc' = "failed"
            /\ sfError' = "FetchError"
    /\ UNCHANGED <<sfValidated, sfRequested, netVars, crawlVars, qmVars, utilVars, svcVars>>

\* fetch() rejects: the timeout signal fired, or the transport failed.
FetchRejects(kind) ==
    /\ sfPc = "response"
    /\ sfPc' = "failed"
    /\ sfError' = kind
    /\ UNCHANGED <<sfHost, sfValidated, sfRequested, sfRedirects, netVars, crawlVars, qmVars, utilVars, svcVars>>

\* Steps 5 to 8: status check, Content-Type check, size-limited body read.
SafeFetchFinish(statusOk, typeOk, sizeOk) ==
    /\ sfPc = "response"
    /\ IF ~statusOk THEN sfPc' = "failed" /\ sfError' = "FetchError"
       ELSE IF ~typeOk THEN sfPc' = "failed" /\ sfError' = "ContentTypeError"
       ELSE IF ~sizeOk THEN sfPc' = "failed" /\ sfError' = "ResponseTooLargeError"
       ELSE sfPc' = "done" /\ sfError' = "none"
    /\ UNCHANGED <<sfHost, sfValidated, sfRequested, sfRedirects, netVars, crawlVars, qmVars, utilVars, svcVars>>

\* The caller makes its next safeFetch call.
SafeFetchReturn ==
    /\ sfPc \in {"done", "failed"}
    /\ sfPc' = "idle"
    /\ UNCHANGED <<sfHost, sfValidated, sfRequested, sfRedirects, sfError, netVars, crawlVars, qmVars, utilVars, svcVars>>

NextFetch ==
    \/ \E h \in FetchHosts, p \in Protocols, w \in BOOLEAN : SafeFetchCall(h, p, w)
    \/ SafeFetchValidate
    \/ FetchSendRequest
    \/ \E h \in FetchHosts : FetchFollowRedirect(h)
    \/ \E k \in {"TimeoutError", "FetchError"} : FetchRejects(k)
    \/ \E s \in BOOLEAN, t \in BOOLEAN, z \in BOOLEAN : SafeFetchFinish(s, t, z)
    \/ SafeFetchReturn

SpecFetch == InitFetch /\ [][NextFetch]_vars

\* C1: every HTTP request safeFetch sends, the first one and each one made
\* while following a redirect, goes to a host that validateHostname accepted
\* earlier in the same call.
C1_RequestsOnlyToValidatedHosts == sfRequested \subseteq sfValidated

\* C5: safeFetch follows at most config.maxRedirects redirects for one
\* request; a longer chain ends in a failure.
C5_AtMostMaxRedirects == sfRedirects <= maxRedirects
(***************************************************************************)
(* utils/url.ts.  The URL class of the runtime is modelled on texts of     *)
(* printable ASCII: a scheme, "//" with credentials, host and port, a     *)
(* path, a query and a fragment.  IPv6 and numeric hosts, percent-escapes  *)
(* in a host and the file scheme are outside the texts used here.          *)
(***************************************************************************)
CharSet(str) == {SubSeq(str, i, i) : i \in 1..Len(str)}

\* Printable ASCII in code order: U+0020 to U+005F, and U+0061 to U+007E.
\* The grave accent U+0060 between them is not part of the texts used here.
AsciiLow == Chars(" !\"#$%&'()*+,-./0123456789:;<=>?@ABCDEFGHIJKLMNOPQRSTUVWXYZ[\\]^_")
AsciiHigh == Chars("abcdefghijklmnopqrstuvwxyz{|}~")
AsciiChars == {AsciiLow[i] : i \in 1..Len(AsciiLow)} \cup {AsciiHigh[i] : i \in 1..Len(AsciiHigh)}
Letters == CharSet("abcdefghijklmnopqrstuvwxyzABCDEFGHIJKLMNOPQRSTUVWXYZ")
DigitChars == CharSet("0123456789")

\* A byte outside printable ASCII is kept as the text of its escape, "%0A".
CharCode(c) ==
    IF \E i \in 1..Len(AsciiLow) : AsciiLow[i] = c
    THEN 31 + CHOOSE i \in 1..Len(AsciiLow) : AsciiLow[i] = c
    ELSE IF \E i \in 1..Len(AsciiHigh) : AsciiHigh[i] = c
    THEN 96 + CHOOSE i \in 1..Len(AsciiHigh) : AsciiHigh[i] = c
    ELSE 16 * DigitVal(SubSeq(c, 2, 2)) + DigitVal(SubSeq(c, 3, 3))

percentEncode(c) ==
    IF c \in AsciiChars
    THEN <<"%", UpperHex[(CharCode(c) \div 16) + 1], UpperHex[(CharCode(c) % 16) + 1]>>
    ELSE Chars(c)

RECURSIVE utf8PercentEncode(_, _)
\* Percent-encode the characters of s that are in encodeSet.
utf8PercentEncode(s, encodeSet) ==
    IF s = <<>> THEN <<>>
    ELSE (IF Head(s) \in encodeSet THEN percentEncode(Head(s)) ELSE <<Head(s)>>)
             \o utf8PercentEncode(Tail(s), encodeSet)

RECURSIVE percentDecode(_)
percentDecode(s) ==
    IF s = <<>> THEN <<>>
    ELSE IF s[1] = "%" /\ Len(s) >= 3 /\ DigitVal(s[2]) # NaN /\ DigitVal(s[3]) # NaN
    THEN LET code == 16 * DigitVal(s[2]) + DigitVal(s[3])
             byte == IF code >= 32 /\ code <= 95 THEN AsciiLow[code - 31]
                     ELSE IF code >= 97 /\ code <= 126 THEN AsciiHigh[code - 96]
                     ELSE "%" \o UpperHex[(code \div 16) + 1] \o UpperHex[(code % 16) + 1]
         IN  <<byte>> \o percentDecode(SubSeq(s, 4, Len(s)))
    ELSE <<s[1]>> \o percentDecode(Tail(s))

\* The percent-encode sets of the URL standard, within printable ASCII.
FragmentEncodeSet == CharSet(" \"<>")
QueryEncodeSet == CharSet(" \"#<>")
SpecialQueryEncodeSet == QueryEncodeSet \cup {"'"}
PathEncodeSet == QueryEncodeSet \cup CharSet("?{}")
UserinfoEncodeSet == PathEncodeSet \cup CharSet("/:;=@[\\]^|")

\* The characters application/x-www-form-urlencoded leaves as they are.
UrlencodedPlain == Letters \cup DigitChars \cup CharSet("*-._")

RECURSIVE urlencodedSerializeText(_)
urlencodedSerializeText(s) ==
    IF s = <<>> THEN <<>>
    ELSE (IF Head(s) \in UrlencodedPlain THEN <<Head(s)>>
          ELSE IF Head(s) = " " THEN <<"+">>
          ELSE percentEncode(Head(s)))
             \o urlencodedSerializeText(Tail(s))

\* String.prototype.trim, and the URL parser's stripping, on spaces.
RECURSIVE trimStart(_)
trimStart(s) == IF s # <<>> /\ Head(s) = " " THEN trimStart(Tail(s)) ELSE s
RECURSIVE trimEnd(_)
trimEnd(s) == IF s # <<>> /\ s[Len(s)] = " " THEN trimEnd(SubSeq(s, 1, Len(s) - 1)) ELSE s
trim(s) == trimEnd(trimStart(s))

\* A component that is null, as opposed to empty.
Null == <<"null">>

\* The text before the first sep, and the text after it (Null without sep).
Before(text, sep) ==
    LET i == IndexOf(text, sep, 0) IN IF i = -1 THEN text ELSE substring(text, 0, i)
After(text, sep) ==
    LET i == IndexOf(text, sep, 0) IN IF i = -1 THEN Null ELSE substringFrom(text, i + Len(sep))

RECURSIVE LastIndexOf(_, _, _)
\* Last zero-based index <= from at which character c occurs in s, or -1.
LastIndexOf(s, c, from) ==
    IF from < 0 THEN -1
    ELSE IF s[from + 1] = c THEN from
    ELSE LastIndexOf(s, c, from - 1)

(***************************************************************************)
(* new URL(input, base): the parser of the URL standard                    *)
(***************************************************************************)
SpecialSchemes == {Chars("http"), Chars("https"), Chars("ftp"), Chars("ws"), Chars("wss")}
isSpecial(scheme) == scheme \in SpecialSchemes

defaultPortOf(scheme) ==
    IF scheme \in {Chars("http"), Chars("ws")} THEN Chars("80")
    ELSE IF scheme \in {Chars("https"), Chars("wss")} THEN Chars("443")
    ELSE IF scheme = Chars("ftp") THEN Chars("21")
    ELSE Null

SchemeChars == Letters \cup DigitChars \cup CharSet("+-.")

RECURSIVE SchemeScan(_, _)
SchemeScan(text, i) ==
    IF i > Len(text) THEN 0
    ELSE IF text[i] = ":" THEN i
    ELSE IF text[i] \in SchemeChars THEN SchemeScan(text, i + 1)
    ELSE 0

\* Position of the ":" that ends the scheme of the text, 0 when it has none.
SchemeEnd(text) == IF text # <<>> /\ text[1] \in Letters THEN SchemeScan(text, 2) ELSE 0

\* The parser's failure, which new URL turns into a TypeError.
Failure == [valid |-> FALSE]
NoBase == Failure
ComponentFailure == <<"failure">>

ForbiddenHostChars == CharSet(" #/:<>?@[\\]^|")
ForbiddenDomainChars == ForbiddenHostChars \cup {"%"}

\* Host parsing: a domain is lower-cased, an opaque host is kept.
parseHost(text, special) ==
    IF special
    THEN IF text = <<>> \/ \E i \in 1..Len(text) : text[i] \in ForbiddenDomainChars
         THEN ComponentFailure
         ELSE toLowerCase(text)
    ELSE IF \E i \in 1..Len(text) : text[i] \in ForbiddenHostChars
         THEN ComponentFailure
         ELSE text

\* Port state: digits only, at most 65535, null when it is the default.
parsePort(text, scheme) ==
    IF text = Null \/ text = <<>> THEN Null
    ELSE IF Len(text) > 5 \/ \E i \in 1..Len(text) : text[i] \notin DigitChars
    THEN ComponentFailure
    ELSE IF parseInt(text, 10) > 65535 THEN ComponentFailure
    ELSE IF DecStr(parseInt(text, 10)) = defaultPortOf(scheme) THEN Null
    ELSE DecStr(parseInt(text, 10))

isSingleDot(seg) == toLowerCase(seg) \in {Chars("."), Chars("%2e")}
isDoubleDot(seg) ==
    toLowerCase(seg) \in {Chars(".."), Chars(".%2e"), Chars("%2e."), Chars("%2e%2e")}

shorten(path) == IF path = <<>> THEN path ELSE SubSeq(path, 1, Len(path) - 1)

RECURSIVE pathState(_, _)
\* Path state: the segments between "/" are appended to path; "." and ".."
\* are resolved, and a trailing one leaves an empty last segment.
pathState(segs, path) ==
    IF segs = <<>> THEN path
    ELSE LET seg == Head(segs)
             last == Len(segs) = 1
             next == IF isDoubleDot(seg)
                     THEN (IF last THEN Append(shorten(path), <<>>) ELSE shorten(path))
                     ELSE IF isSingleDot(seg)
                     THEN (IF last THEN Append(path, <<>>) ELSE path)
                     ELSE Append(path, utf8PercentEncode(seg, PathEncodeSet))
         IN  pathState(Tail(segs), next)

\* Authority state, host state, port state and path start state, on the
\* text that follows the slashes.
parseAuthority(scheme, text, query, fragment) ==
    LET special == isSpecial(scheme)
        slash == IndexOf(text, <<"/">>, 0)
        authority == IF slash = -1 THEN text ELSE substring(text, 0, slash)
        pathText == IF slash = -1 THEN Null ELSE substringFrom(text, slash + 1)
        at == LastIndexOf(authority, "@", Len(authority) - 1)
        userinfo == IF at = -1 THEN <<>> ELSE substring(authority, 0, at)
        hostport == substringFrom(authority, at + 1)
        host == parseHost(Before(hostport, <<":">>), special)
        portText == parsePort(After(hostport, <<":">>), scheme)
        pw == After(userinfo, <<":">>)
    IN  IF \/ host = ComponentFailure
           \/ portText = ComponentFailure
           \/ host = <<>> /\ (at # -1 \/ After(hostport, <<":">>) # Null)
        THEN Failure
        ELSE [valid |-> TRUE, scheme |-> scheme,
              username |-> utf8PercentEncode(Before(userinfo, <<":">>), UserinfoEncodeSet),
              password |-> IF pw = Null THEN <<>>
                           ELSE utf8PercentEncode(pw, UserinfoEncodeSet),
              host |-> host, port |-> portText, opaque |-> FALSE,
              path |-> IF pathText = Null
                       THEN (IF special THEN << <<>> >> ELSE <<>>)
                       ELSE pathState(split(pathText, <<"/">>), <<>>),
              query |-> query, fragment |-> fragment]

normalizeBackslashes(text) ==
    [i \in 1..Len(text) |-> IF text[i] = "\\" THEN "/" ELSE text[i]]

RECURSIVE stripSlashes(_)
stripSlashes(t) == IF t # <<>> /\ Head(t) = "/" THEN stripSlashes(Tail(t)) ELSE t

\* new URL(input, base), base already parsed; NoBase when there is none.
ParseURL(input, base) ==
    LET text == trim(input)
        rawFragment == After(text, <<"#">>)
        beforeFragment == Before(text, <<"#">>)
        rawQuery == After(beforeFragment, <<"?">>)
        front == Before(beforeFragment, <<"?">>)
        e == SchemeEnd(front)
        scheme == IF e > 0 THEN toLowerCase(SubSeq(front, 1, e - 1))
                  ELSE IF base.valid THEN base.scheme
                  ELSE <<>>
        special == isSpecial(scheme)
        rest0 == IF e > 0 THEN substringFrom(front, e) ELSE front
        rest == IF special THEN normalizeBackslashes(rest0) ELSE rest0
        query == IF rawQuery = Null THEN Null
                 ELSE utf8PercentEncode(rawQuery, IF special THEN SpecialQueryEncodeSet
                                                  ELSE QueryEncodeSet)
        fragment == IF rawFragment = Null THEN Null
                    ELSE utf8PercentEncode(rawFragment, FragmentEncodeSet)
        relative == /\ base.valid
                    /\ \/ e = 0
                       \/ special /\ base.scheme = scheme /\ ~startsWith(rest, <<"/", "/">>)
    IN  IF e = 0 /\ ~base.valid THEN Failure
        ELSE IF relative
        THEN IF base.opaque
             THEN (IF front = <<>> /\ rawQuery = Null /\ rawFragment # Null
                   THEN [base EXCEPT !.fragment = fragment]
                   ELSE Failure)
             ELSE IF startsWith(rest, <<"/", "/">>)
             THEN parseAuthority(scheme,
                                 IF special THEN stripSlashes(rest) ELSE substringFrom(rest, 2),
                                 query, fragment)
             ELSE IF startsWith(rest, <<"/">>)
             THEN [base EXCEPT !.path = pathState(split(Tail(rest), <<"/">>), <<>>),
                               !.query = query, !.fragment = fragment]
             ELSE IF rest = <<>>
             THEN [base EXCEPT !.query = IF rawQuery = Null THEN base.query ELSE query,
                               !.fragment = fragment]
             ELSE [base EXCEPT !.path = pathState(split(rest, <<"/">>), shorten(base.path)),
                               !.query = query, !.fragment = fragment]
        ELSE IF special THEN parseAuthority(scheme, stripSlashes(rest), query, fragment)
        ELSE IF startsWith(rest, <<"/", "/">>)
        THEN parseAuthority(scheme, substringFrom(rest, 2), query, fragment)
        ELSE [valid |-> TRUE, scheme |-> scheme, username |-> <<>>, password |-> <<>>,
              host |-> Null, port |-> Null,
              opaque |-> ~startsWith(rest, <<"/">>),
              path |-> IF startsWith(rest, <<"/">>)
                       THEN pathState(split(Tail(rest), <<"/">>), <<>>)
                       ELSE rest,
              query |-> query, fragment |-> fragment]

(***************************************************************************)
(* The getters, the setters and the serializer of URL                      *)
(***************************************************************************)
protocol(u) == u.scheme \o <<":">>
hostname(u) == IF u.host = Null THEN <<>> ELSE u.host
port(u) == IF u.port = Null THEN <<>> ELSE u.port
search(u) == IF u.query = Null \/ u.query = <<>> THEN <<>> ELSE <<"?">> \o u.query

RECURSIVE pathSerialize(_)
pathSerialize(path) ==
    IF path = <<>> THEN <<>> ELSE <<"/">> \o Head(path) \o pathSerialize(Tail(path))

pathname(u) == IF u.opaque THEN u.path ELSE pathSerialize(u.path)

\* href, and toString().
serializeURL(u) ==
    u.scheme \o <<":">>
        \o (IF u.host # Null
            THEN <<"/", "/">>
                     \o (IF u.username # <<>> \/ u.password # <<>>
                         THEN u.username
                                  \o (IF u.password # <<>> THEN <<":">> \o u.password ELSE <<>>)
                                  \o <<"@">>
                         ELSE <<>>)
                     \o u.host
                     \o (IF u.port # Null THEN <<":">> \o u.port ELSE <<>>)
            ELSE IF ~u.opaque /\ Len(u.path) > 1 /\ u.path[1] = <<>> THEN <<"/", ".">>
            ELSE <<>>)
        \o pathname(u)
        \o (IF u.query # Null THEN <<"?">> \o u.query ELSE <<>>)
        \o (IF u.fragment # Null THEN <<"#">> \o u.fragment ELSE <<>>)

\* parsed.hash = "": the fragment becomes null.
setHashEmpty(u) == [u EXCEPT !.fragment = Null]

\* parsed.port = "": the port becomes null.
setPortEmpty(u) == [u EXCEPT !.port = Null]

(***************************************************************************)
(* URLSearchParams: parsing, sort() and the update of the URL's query      *)
(***************************************************************************)
plusToSpace(s) == [i \in 1..Len(s) |-> IF s[i] = "+" THEN " " ELSE s[i]]

RECURSIVE urlencodedParse(_)
\* The name-value pairs of the sequences between "&"; empty ones are skipped.
urlencodedParse(seqs) ==
    IF seqs = <<>> THEN <<>>
    ELSE IF Head(seqs) = <<>> THEN urlencodedParse(Tail(seqs))
    ELSE LET name == Before(Head(seqs), <<"=">>)
             value == After(Head(seqs), <<"=">>)
         IN  <<[name |-> percentDecode(plusToSpace(name)),
                value |-> IF value = Null THEN <<>> ELSE percentDecode(plusToSpace(value))]>>
                 \o urlencodedParse(Tail(seqs))

searchParams(u) ==
    IF u.query = Null THEN <<>> ELSE urlencodedParse(split(u.query, <<"&">>))

RECURSIVE codeUnitsLess(_, _)
\* a sorts before b when compared code unit by code unit.
codeUnitsLess(a, b) ==
    IF b = <<>> THEN FALSE
    ELSE IF a = <<>> THEN TRUE
    ELSE IF CharCode(a[1]) # CharCode(b[1]) THEN CharCode(a[1]) < CharCode(b[1])
    ELSE codeUnitsLess(Tail(a), Tail(b))

RECURSIVE insertByName(_, _)
\* p inserted behind every pair whose name does not sort after its name.
insertByName(list, p) ==
    IF list = <<>> THEN <<p>>
    ELSE IF codeUnitsLess(p.name, Head(list).name) THEN <<p>> \o list
    ELSE <<Head(list)>> \o insertByName(Tail(list), p)

RECURSIVE sortByName(_, _)
\* Stable sort of the pairs by name.
sortByName(list, sorted) ==
    IF list = <<>> THEN sorted
    ELSE sortByName(Tail(list), insertByName(sorted, Head(list)))

urlencodedSerialize(list) ==
    join([i \in 1..Len(list) |->
             urlencodedSerializeText(list[i].name) \o <<"=">>
                 \o urlencodedSerializeText(list[i].value)],
         <<"&">>)

\* parsed.searchParams.sort(): the pairs are sorted and the query of the URL
\* is set to their serialization, or to null when that is empty.
searchParamsSort(u) ==
    LET serialized == urlencodedSerialize(sortByName(searchParams(u), <<>>))
    IN  [u EXCEPT !.query = IF serialized = <<>> THEN Null ELSE serialized]

(***************************************************************************)
(* The functions of utils/url.ts                                           *)
(***************************************************************************)
\* What a function that threw a TypeError is recorded to have returned.
TypeError == <<"TypeError">>

\* DEFAULT_PORTS.get(protocol); Null is the undefined of an absent key.
DEFAULT_PORTS(p) ==
    IF p = Chars("http:") THEN Chars("80")
    ELSE IF p = Chars("https:") THEN Chars("443")
    ELSE Null

FETCHABLE_SCHEMES == {Chars("http:"), Chars("https:")}

\* normalized.replace(/\/$/, "")
replaceTrailingSlash(s) ==
    IF s # <<>> /\ s[Len(s)] = "/" THEN SubSeq(s, 1, Len(s) - 1) ELSE s

\* Mutant of normalizeUrl: a trailing slash is removed from any url.
normalizeUrl_StripsAnySlash(url) ==
    LET parsed0 == ParseURL(url, NoBase)
        parsed == searchParamsSort(setHashEmpty(parsed0))
    IN  IF ~parsed0.valid THEN TypeError ELSE replaceTrailingSlash(serializeURL(parsed))

\* if (parsed.port === DEFAULT_PORTS[parsed.protocol]) parsed.port = ""
removeDefaultPort(parsed) ==
    IF port(parsed) = DEFAULT_PORTS(protocol(parsed)) THEN setPortEmpty(parsed) ELSE parsed

\* The slash of the root path is removed when no query follows it.
removeRootSlash(parsed, normalized) ==
    IF pathname(parsed) = <<"/">> /\ search(parsed) = <<>>
    THEN replaceTrailingSlash(normalized)
    ELSE normalized

\* The statements of normalizeUrl that follow new URL(url).
normalizeParsed(parsed0) ==
    LET parsed == searchParamsSort(removeDefaultPort(setHashEmpty(parsed0)))
    IN  IF ~parsed0.valid THEN TypeError
        ELSE removeRootSlash(parsed, serializeURL(parsed))

normalizeUrl(url) == normalizeParsed(ParseURL(url, NoBase))

\* new URL(relative, base).href
resolveUrl(base, relative) ==
    LET b == ParseURL(base, NoBase)
        r == IF b.valid THEN ParseURL(relative, b) ELSE Failure
    IN  IF r.valid THEN serializeURL(r) ELSE TypeError

isFetchableUrl(url) ==
    LET parsed == ParseURL(url, NoBase)
    IN  parsed.valid /\ protocol(parsed) \in FETCHABLE_SCHEMES

(***************************************************************************)
(* matchesPattern: the pattern is turned into a regular expression         *)
(***************************************************************************)
\* The characters of the class [.+?^${}()|[\]\\].
RegexMetacharacters == CharSet(".+?^${}()|[]\\")

RECURSIVE escapeMetacharacters(_)
\* pattern.replace(/[.+?^${}()|[\]\\]/g, "\\$&")
escapeMetacharacters(s) ==
    IF s = <<>> THEN <<>>
    ELSE (IF Head(s) \in RegexMetacharacters THEN <<"\\", Head(s)>> ELSE <<Head(s)>>)
             \o escapeMetacharacters(Tail(s))

RECURSIVE replaceStars(_)
\* .replace(/\*/g, ".*")
replaceStars(s) ==
    IF s = <<>> THEN <<>>
    ELSE (IF Head(s) = "*" THEN <<".", "*">> ELSE <<Head(s)>>) \o replaceStars(Tail(s))

escapedPattern(pattern) == replaceStars(escapeMetacharacters(pattern))

RECURSIVE regexCompile(_)
\* The terms of a regular expression source: an escaped character stands for
\* itself, "." for any character, a term followed by "*" for any run of it,
\* "^" and "$" for the two ends, and any other character for itself.
regexCompile(src) ==
    IF src = <<>> THEN <<>>
    ELSE LET escaped == src[1] = "\\" /\ Len(src) >= 2
             width == IF escaped THEN 2 ELSE 1
             atom == IF escaped THEN [kind |-> "char", c |-> src[2]]
                     ELSE IF src[1] = "." THEN [kind |-> "any", c |-> "."]
                     ELSE IF src[1] = "^" THEN [kind |-> "start", c |-> "^"]
                     ELSE IF src[1] = "$" THEN [kind |-> "end", c |-> "$"]
                     ELSE [kind |-> "char", c |-> src[1]]
             starred == Len(src) > width /\ src[width + 1] = "*"
         IN  <<[atom |-> atom, star |-> starred]>>
                 \o regexCompile(SubSeq(src, width + (IF starred THEN 2 ELSE 1), Len(src)))

\* Canonicalize of the "i" flag.
sameIgnoringCase(a, b) == toUpperCase(<<a>>) = toUpperCase(<<b>>)

atomMatches(atom, c) == atom.kind = "any" \/ (atom.kind = "char" /\ sameIgnoringCase(atom.c, c))

RECURSIVE regexMatchFrom(_, _, _)
\* The terms match text from position pos (one-based) on.
regexMatchFrom(terms, text, pos) ==
    IF terms = <<>> THEN TRUE
    ELSE LET t == Head(terms)
         IN  IF t.atom.kind = "start" THEN pos = 1 /\ regexMatchFrom(Tail(terms), text, pos)
             ELSE IF t.atom.kind = "end"
             THEN pos = Len(text) + 1 /\ regexMatchFrom(Tail(terms), text, pos)
             ELSE IF t.star
             THEN \E k \in pos..(Len(text) + 1) :
                      /\ \A i \in pos..(k - 1) : atomMatches(t.atom, text[i])
                      /\ regexMatchFrom(Tail(terms), text, k)
             ELSE /\ pos <= Len(text)
                  /\ atomMatches(t.atom, text[pos])
                  /\ regexMatchFrom(Tail(terms), text, pos + 1)

\* new RegExp(source, "i").test(text): a match may start anywhere.
regexTest(source, text) ==
    \E pos \in 1..(Len(text) + 1) : regexMatchFrom(regexCompile(source), text, pos)

\* Mutant of matchesPattern: the expression is not anchored.
matchesPattern_Unanchored(url, pattern) == regexTest(escapedPattern(pattern), url)

matchesPattern(url, pattern) ==
    regexTest(<<"^">> \o escapedPattern(pattern) \o <<"$">>, url)

(***************************************************************************)
(* crawler/link-resolver.ts: the loop of extractLinks over the a[href]     *)
(* elements of the page, each given by its href attribute and its text     *)
(***************************************************************************)
NON_FETCHABLE_SCHEMES ==
    {Chars("javascript:"), Chars("mailto:"), Chars("tel:"), Chars("data:"),
     Chars("blob:"), Chars("ftp:"), Chars("file:")}

hasNonFetchableScheme(href) ==
    LET lower == toLowerCase(trim(href))
    IN  \E scheme \in NON_FETCHABLE_SCHEMES : startsWith(lower, scheme)

\* Mutant of seenHas: no url is ever taken as seen.
seenHas_Never(seen, normalized) == FALSE

\* seen.has(normalized)
seenHas(seen, normalized) == normalized \in seen

\* Mutant of isFetchableAfterResolution: every resolved url is accepted.
isFetchableAfterResolution_Always(normalized) == TRUE

\* The re-validation of the scheme after resolution.
isFetchableAfterResolution(normalized) == isFetchableUrl(normalized)

RECURSIVE eachAnchor(_, _, _, _, _)
RECURSIVE anchorTrimmed(_, _, _, _, _, _)
RECURSIVE anchorResolved(_, _, _, _, _, _)
RECURSIVE anchorNormalized(_, _, _, _, _, _)

\* The callback from the duplicate check on: the normalized url is looked up
\* in seen, recorded there, validated again and pushed with its text.
anchorNormalized(anchors, baseUrl, baseDomain, seen, links, normalized) ==
    IF normalized = TypeError THEN [threw |-> TRUE, links |-> <<>>]
    ELSE IF seenHas(seen, normalized)
    THEN eachAnchor(Tail(anchors), baseUrl, baseDomain, seen, links)
    ELSE IF ~isFetchableAfterResolution(normalized)
    THEN eachAnchor(Tail(anchors), baseUrl, baseDomain, seen \cup {normalized}, links)
    ELSE eachAnchor(Tail(anchors), baseUrl, baseDomain, seen \cup {normalized},
                    Append(links,
                           [text |-> trim(Head(anchors).text),
                            url |-> normalized,
                            isInternal |-> hostname(ParseURL(normalized, NoBase)) = baseDomain]))

\* The callback once the href is resolved: an unresolvable href is skipped.
anchorResolved(anchors, baseUrl, baseDomain, seen, links, absoluteUrl) ==
    IF absoluteUrl = TypeError
    THEN eachAnchor(Tail(anchors), baseUrl, baseDomain, seen, links)
    ELSE anchorNormalized(anchors, baseUrl, baseDomain, seen, links,
                          normalizeUrl(absoluteUrl))

\* The callback once the href is trimmed: empty hrefs, fragment-only hrefs
\* and hrefs of a non-fetchable scheme are skipped.
anchorTrimmed(anchors, baseUrl, baseDomain, seen, links, trimmedHref) ==
    IF Len(trimmedHref) = 0
    THEN eachAnchor(Tail(anchors), baseUrl, baseDomain, seen, links)
    ELSE IF startsWith(trimmedHref, <<"#">>)
    THEN eachAnchor(Tail(anchors), baseUrl, baseDomain, seen, links)
    ELSE IF hasNonFetchableScheme(trimmedHref)
    THEN eachAnchor(Tail(anchors), baseUrl, baseDomain, seen, links)
    ELSE anchorResolved(anchors, baseUrl, baseDomain, seen, links,
                        resolveUrl(baseUrl, trimmedHref))

\* The callback of $("a[href]").each, applied to the elements in document
\* order; seen and links are the two collections it fills.
eachAnchor(anchors, baseUrl, baseDomain, seen, links) ==
    IF anchors = <<>> THEN [threw |-> FALSE, links |-> links]
    ELSE anchorTrimmed(anchors, baseUrl, baseDomain, seen, links,
                       trim(Head(anchors).href))

\* extractLinks(html, baseUrl) without options, on the anchors of the html:
\* the links it returns, or that it threw.
collectLinks(anchors, baseUrl) ==
    LET base == ParseURL(baseUrl, NoBase)
    IN  IF ~base.valid THEN [threw |-> TRUE, links |-> <<>>]
        ELSE eachAnchor(anchors, baseUrl, hostname(base), {}, <<>>)
(***************************************************************************)
(* crawler/bfs-crawler.ts: crawl                                           *)
(***************************************************************************)
\* config.defaultMaxTokens, used when options.maxTokens is absent.
defaultMaxTokens == 100000

\* Normalized urls of the crawled web.
CrawlUrls == {"https://a.example", "https://a.example/docs/1",
              "https://a.example/admin/x", "https://b.example/docs/2"}
StartUrls == {"https://a.example", "https://b.example/docs/2"}

\* Further urls met by filterLinks: a subdomain, and a url under both
\* /admin/ and /docs/.
FilterUrls == CrawlUrls \cup {"https://sub.a.example/docs/3", "https://b.example/admin/docs/4"}

extractDomain(url) ==
    IF url \in {"https://b.example/docs/2", "https://b.example/admin/docs/4"} THEN "b.example"
    ELSE IF url = "https://sub.a.example/docs/3" THEN "sub.a.example"
    ELSE "a.example"

\* matchesPattern on the urls and the glob patterns of this web.
UrlMatches(url, pattern) ==
    \/ pattern = "*/docs/*" /\ url \in {"https://a.example/docs/1", "https://b.example/docs/2",
                                        "https://sub.a.example/docs/3",
                                        "https://b.example/admin/docs/4"}
    \/ pattern = "*/admin/*" /\ url \in {"https://a.example/admin/x",
                                         "https://b.example/admin/docs/4"}

\* estimateTokens of the page contents met in this web.
PageTokens == {1, 500}

\* An absent maxTokens is written -1 here; the code sees undefined.
Absent == -1
MaxTokensChoices == {Absent, 0, 1, 501}

Options(m, d, i, x) ==
    [maxTokens |-> m, allowedDomains |-> d, includePatterns |-> i, excludePatterns |-> x]

\* The option objects crawl is called with: each budget without link filters,
\* and each link filter under the default budget.
OptionChoices ==
    {Options(m, {}, {}, {}) : m \in MaxTokensChoices}
        \cup {Options(Absent, {"a.example"}, {}, {}),
              Options(Absent, {}, {"*/docs/*"}, {}),
              Options(Absent, {}, {}, {"*/admin/*"})}

\* Largest number of distinct links extractLinks finds on one page.
MaxLinks == 2

\* The link targets a page can hold: normalized urls, no duplicates.
LinkTargets ==
    {q \in UNION {[1..k -> CrawlUrls] : k \in 0..MaxLinks} :
        \A a, b \in 1..Len(q) : a # b => q[a] # q[b]}

\* extractLinks on a page holding these targets.
extractLinks(targets, baseUrl) ==
    [i \in 1..Len(targets) |->
        [url |-> targets[i], isInternal |-> extractDomain(targets[i]) = extractDomain(baseUrl)]]

RECURSIVE SelectSeq2(_, _)
SelectSeq2(seq, keep) ==
    IF seq = <<>> THEN <<>>
    ELSE IF keep[1] THEN <<Head(seq)>> \o SelectSeq2(Tail(seq), Tail(keep))
    ELSE SelectSeq2(Tail(seq), Tail(keep))

\* Mutant of filterLinks: every link is kept.
filterLinks_KeepAll(links, baseDomain, options) == links

\* Mutant of domainListed: a subdomain of a listed domain is accepted too,
\* as isDomainAllowed of utils/url.ts does.
domainListed_WithSubdomains(allowedDomains, linkDomain) ==
    \E domain \in allowedDomains :
        LET allowed == toLowerCase(Chars(domain))
            name == toLowerCase(Chars(linkDomain))
        IN  \/ name = allowed
            \/ /\ Len(name) > Len(allowed)
               /\ SubSeq(name, Len(name) - Len(allowed), Len(name)) = <<".">> \o allowed

\* options.allowedDomains.some(domain => domain.toLowerCase() === linkDomain.toLowerCase())
domainListed(allowedDomains, linkDomain) ==
    \E domain \in allowedDomains :
        toLowerCase(Chars(domain)) = toLowerCase(Chars(linkDomain))

\* Mutant of filterLinks: a link that matches an include pattern is kept
\* whatever the exclude patterns say.
filterLinks_IncludeWins(links, baseDomain, options) ==
    LET keep(link) ==
            IF options.filter = "internal" /\ ~link.isInternal THEN FALSE
            ELSE IF options.filter = "external" /\ link.isInternal THEN FALSE
            ELSE IF options.allowedDomains # {}
                    /\ ~domainListed(options.allowedDomains, extractDomain(link.url))
                 THEN FALSE
            ELSE IF options.includePatterns # {}
                 THEN \E pt \in options.includePatterns : UrlMatches(link.url, pt)
            ELSE IF options.excludePatterns # {}
                    /\ \E pt \in options.excludePatterns : UrlMatches(link.url, pt)
                 THEN FALSE
            ELSE TRUE
    IN  SelectSeq2(links, [i \in 1..Len(links) |-> keep(links[i])])

filterLinks(links, baseDomain, options) ==
    LET keep(link) ==
            IF options.filter = "internal" /\ ~link.isInternal THEN FALSE
            ELSE IF options.filter = "external" /\ link.isInternal THEN FALSE
            ELSE IF options.allowedDomains # {}
                    /\ ~domainListed(options.allowedDomains, extractDomain(link.url))
                 THEN FALSE
            ELSE IF options.includePatterns # {}
                    /\ ~\E pt \in options.includePatterns : UrlMatches(link.url, pt)
                 THEN FALSE
            ELSE IF options.excludePatterns # {}
                    /\ \E pt \in options.excludePatterns : UrlMatches(link.url, pt)
                 THEN FALSE
            ELSE TRUE
    IN  SelectSeq2(links, [i \in 1..Len(links) |-> keep(links[i])])

linkFilterOptions(o) ==
    [allowedDomains |-> o.allowedDomains, excludePatterns |-> o.excludePatterns,
     includePatterns |-> o.includePatterns, filter |-> "all"]

\* Mutant of shift: the queue is used as a stack.
shift_Pop(q) == [entry |-> q[Len(q)], rest |-> SubSeq(q, 1, Len(q) - 1)]

\* queue.shift(): the head entry and the queue without it.
shift(q) == [entry |-> Head(q), rest |-> Tail(q)]

\* Mutant of visitedAdd: the url is not marked before the fetch.
visitedAdd_Skip(v, url) == v

\* visited.add(entry.url), before extractPage is called.
visitedAdd(v, url) == v \cup {url}

\* Mutant of budgetReached: the page that reaches the budget exactly does not stop the crawl.
budgetReached_Strict(total, maxTokens) == total > maxTokens

\* The budget check: totalTokens >= maxTokens.
budgetReached(total, maxTokens) == total >= maxTokens

\* Mutant of addTokens: the running total is overwritten by the page estimate.
addTokens_Overwrite(total, pageTokens) == pageTokens

\* totalTokens += pageTokens.
addTokens(total, pageTokens) == total + pageTokens

\* Mutant of catchExtractError: the error of extractPage is thrown on.
catchExtractError_Rethrow == "throw"

\* The catch block around extractPage logs the error and continues.
catchExtractError == "continue"

RECURSIVE pushUnvisited(_, _, _, _)
\* The enqueue loop: each filtered link not yet visited, at depth + 1.
pushUnvisited(q, links, v, depth) ==
    IF links = <<>> THEN q
    ELSE pushUnvisited(IF Head(links).url \notin v
                       THEN Append(q, [url |-> Head(links).url, depth |-> depth])
                       ELSE q,
                       Tail(links), v, depth)

\* Mutant of finalReason: the reason is left as the loop left it.
finalReason_KeepsInitial(reason, v, q, p) == reason

\* The stop reason the code computes after the loop.
finalReason(reason, v, q, p) ==
    IF reason # "token_limit"
    THEN IF Cardinality(v) > 0 /\ Len(q) = 0
         THEN (IF Len(p) < Cardinality(v) THEN "no_more_links" ELSE "all_visited")
         ELSE reason
    ELSE reason

InitCrawl ==
    /\ NetIdle
    /\ FetchIdle
    /\ CrawlIdle
    /\ QueueIdle
    /\ UtilIdle
    /\ SvcIdle

\* crawl(startUrl, options): options resolved, BFS state initialised.
\* normalizeUrl throws on a malformed start url.
CrawlCall(start, o, wellFormed) ==
    /\ crawlPc = "idle"
    /\ opts' = [maxTokens |-> IF o.maxTokens = Absent THEN defaultMaxTokens ELSE o.maxTokens,
                allowedDomains |-> o.allowedDomains,
                includePatterns |-> o.includePatterns,
                excludePatterns |-> o.excludePatterns,
                start |-> start]
    /\ crawlPc' = IF wellFormed THEN "loop" ELSE "threw"
    /\ queue' = IF wellFormed THEN <<[url |-> start, depth |-> 0]>> ELSE <<>>
    /\ visited' = {}
    /\ pages' = <<>>
    /\ totalTokens' = 0
    /\ maxDepthReached' = 0
    /\ stoppedReason' = "no_more_links"
    /\ extractCalls' = [u \in CrawlUrls |-> 0]
    /\ extractOk' = {}
    /\ seedFailed' = FALSE
    /\ budgetTripped' = FALSE
    /\ UNCHANGED <<netVars, sfVars, qmVars, utilVars, svcVars>>

\* The end of a loop iteration: the loop test, and when the loop is left the
\* stop reason and the return.
EndIteration(q, v, p, broke) ==
    /\ queue' = q
    /\ visited' = v
    /\ pages' = p
    /\ budgetTripped' = broke
    /\ IF broke \/ Len(q) = 0
       THEN /\ crawlPc' = "returned"
            /\ stoppedReason' = finalReason(IF broke THEN "token_limit" ELSE stoppedReason, v, q, p)
       ELSE /\ crawlPc' = "loop"
            /\ stoppedReason' = stoppedReason

\* An iteration whose entry is already visited: discarded.
CrawlSkipVisited ==
    /\ crawlPc = "loop"
    /\ shift(queue).entry.url \in visited
    /\ EndIteration(shift(queue).rest, visited, pages, FALSE)
    /\ UNCHANGED <<opts, totalTokens, maxDepthReached, extractCalls, extractOk, seedFailed,
                   netVars, sfVars, qmVars, utilVars, svcVars>>

\* An iteration in which extractPage fails.
CrawlExtractFails ==
    /\ crawlPc = "loop"
    /\ LET entry == shift(queue).entry
       IN  /\ entry.url \notin visited
           /\ maxDepthReached' = IF entry.depth > maxDepthReached THEN entry.depth
                                 ELSE maxDepthReached
           /\ extractCalls' = [extractCalls EXCEPT ![entry.url] = @ + 1]
           /\ seedFailed' = (seedFailed \/ entry.depth = 0)
           /\ IF catchExtractError = "continue"
              THEN EndIteration(shift(queue).rest, visitedAdd(visited, entry.url), pages, FALSE)
              ELSE /\ crawlPc' = "threw"
                   /\ queue' = shift(queue).rest
                   /\ visited' = visitedAdd(visited, entry.url)
                   /\ UNCHANGED <<pages, stoppedReason, budgetTripped>>
    /\ UNCHANGED <<opts, totalTokens, extractOk, netVars, sfVars, qmVars, utilVars, svcVars>>

\* An iteration in which extractPage returns a page of the given estimate;
\* targets are the links its html holds, when the result has one.
CrawlExtractOk(pageTokens, hasHtml, targets) ==
    /\ crawlPc = "loop"
    /\ LET entry == shift(queue).entry
           v == visitedAdd(visited, entry.url)
           total == addTokens(totalTokens, pageTokens)
           broke == budgetReached(total, opts.maxTokens)
           allLinks == extractLinks(targets, entry.url)
           linksFound == IF hasHtml /\ ~broke THEN Len(allLinks) ELSE 0
           filteredLinks == filterLinks(allLinks, extractDomain(opts.start),
                                        linkFilterOptions(opts))
           q == IF hasHtml /\ ~broke
                THEN pushUnvisited(shift(queue).rest, filteredLinks, v, entry.depth + 1)
                ELSE shift(queue).rest
           page == [url |-> entry.url, depth |-> entry.depth, tokens |-> pageTokens,
                    links_found |-> linksFound]
       IN  /\ entry.url \notin visited
           /\ maxDepthReached' = IF entry.depth > maxDepthReached THEN entry.depth
                                 ELSE maxDepthReached
           /\ extractCalls' = [extractCalls EXCEPT ![entry.url] = @ + 1]
           /\ extractOk' = extractOk \cup {entry.url}
           /\ totalTokens' = total
           /\ EndIteration(q, v, Append(pages, page), broke)
    /\ UNCHANGED <<opts, seedFailed, netVars, sfVars, qmVars, utilVars, svcVars>>

NextCrawl ==
    \/ \E st \in StartUrls, o \in OptionChoices, w \in BOOLEAN : CrawlCall(st, o, w)
    \/ CrawlSkipVisited
    \/ CrawlExtractFails
    \/ \E t \in PageTokens :
          \/ CrawlExtractOk(t, FALSE, <<>>)
          \/ \E l \in LinkTargets : CrawlExtractOk(t, TRUE, l)

SpecCrawl == InitCrawl /\ [][NextCrawl]_vars

\* handleCrawl: the tool response for the outcome of crawl.
handleCrawlResponse ==
    CASE crawlPc = "returned" -> "content"
      [] crawlPc = "threw" -> "isError"
      [] OTHER -> "pending"
RECURSIVE SumTokens(_)
SumTokens(p) == IF p = <<>> THEN 0 ELSE p[1].tokens + SumTokens(Tail(p))

AllButLast(p) == SubSeq(p, 1, Len(p) - 1)

PageUrls == {pages[i].url : i \in 1..Len(pages)}

TokenLimitReturn == crawlPc = "returned" /\ stoppedReason = "token_limit"

\* C6 as stated: whenever crawl returns token_limit, total_tokens >= maxTokens
\* and the tokens of all pages except the last sum to less than maxTokens; a
\* budget of 1 with a seed page of 500 tokens returns exactly that one page.
C6_BudgetCrossingPageKept ==
    /\ TokenLimitReturn =>
          /\ totalTokens >= opts.maxTokens
          /\ SumTokens(AllButLast(pages)) < opts.maxTokens
    /\ (crawlPc = "returned" /\ opts.maxTokens = 1 /\ Len(pages) >= 1 /\ pages[1].tokens = 500)
          => (Len(pages) = 1 /\ stoppedReason = "token_limit")

\* C6 amended: whenever crawl returns token_limit, the page that reached the
\* budget is in pages, total_tokens (the sum of all pages) >= maxTokens, and
\* either pages holds the seed page alone or the tokens of all pages except
\* the last sum to less than maxTokens; a budget of 1 with a seed page of 500
\* tokens returns exactly that one page.
C6_BudgetCrossingPageKept_Amended ==
    /\ TokenLimitReturn =>
          /\ Len(pages) >= 1
          /\ totalTokens = SumTokens(pages)
          /\ totalTokens >= opts.maxTokens
          /\ Len(pages) = 1 \/ SumTokens(AllButLast(pages)) < opts.maxTokens
    /\ (crawlPc = "returned" /\ opts.maxTokens = 1 /\ Len(pages) >= 1 /\ pages[1].tokens = 500)
          => (Len(pages) = 1 /\ stoppedReason = "token_limit")

C6_Witness ==
    /\ TokenLimitReturn
    /\ opts.maxTokens = 501
    /\ Len(pages) = 3
    /\ totalTokens = 502

\* C7: a failing extraction never makes crawl throw and never loses a page:
\* crawl throws only before any extraction, and what it returns holds exactly
\* the pages whose extraction succeeded; when every discovered link fails the
\* result is the seed page alone.
C7_FailuresAreSkipped ==
    /\ crawlPc = "threw" => \A u \in CrawlUrls : extractCalls[u] = 0
    /\ crawlPc \in {"loop", "returned"} => PageUrls = extractOk
    /\ (crawlPc = "returned" /\ opts.start \in extractOk /\ extractOk = {opts.start})
          => (Len(pages) = 1 /\ pages[1].url = opts.start)

C7_Witness ==
    /\ crawlPc = "returned"
    /\ Len(pages) = 1
    /\ pages[1].url = opts.start
    /\ Cardinality(visited) = 3

\* C8: when the extraction of the seed page fails, crawl ends in a hard failure
\* (the tool response is an error), not in a result.
C8_SeedFailureIsHard == seedFailed => handleCrawlResponse # "content"

\* C9: extractPage is invoked at most once per normalized url, a url whose
\* extraction failed included, and no two entries of pages have the same url.
C9_AtMostOneExtractionPerUrl ==
    crawlPc \in {"loop", "returned"} =>
        /\ \A u \in CrawlUrls : extractCalls[u] <= 1
        /\ \A i, j \in 1..Len(pages) : i # j => pages[i].url # pages[j].url

C9_Witness ==
    /\ crawlPc = "loop"
    /\ Len(queue) > 0
    /\ Head(queue).url \in visited
    /\ Head(queue).url \notin extractOk
    /\ extractCalls[Head(queue).url] = 1

\* C10: pages are in breadth-first order: along pages the depth never decreases.
C10_DepthsNeverDecrease ==
    \A i, j \in 1..Len(pages) : i < j => pages[i].depth <= pages[j].depth

C10_Witness ==
    /\ crawlPc = "returned"
    /\ Len(pages) = 4
    /\ pages[2].depth = 1
    /\ pages[3].depth = 1
    /\ pages[4].depth = 2
\* C11: after every loop iteration and on return, the running token total is
\* the sum of the tokens of the pages collected so far.
C11_TotalIsSumOfPages ==
    crawlPc \in {"loop", "returned"} => totalTokens = SumTokens(pages)

C11_Witness ==
    /\ crawlPc = "returned"
    /\ Len(pages) = 3
    /\ totalTokens = 1001
RECURSIVE MaxPageDepth(_)
MaxPageDepth(p) ==
    IF p = <<>> THEN 0
    ELSE LET rest == MaxPageDepth(Tail(p))
         IN  IF p[1].depth > rest THEN p[1].depth ELSE rest

WebLinks(url) ==
    CASE url = "https://a.example" -> <<"https://a.example/docs/1", "https://a.example/admin/x">>
      [] url = "https://a.example/docs/1" -> <<"https://a.example", "https://b.example/docs/2">>
      [] url = "https://b.example/docs/2" -> <<"https://a.example">>
      [] OTHER -> <<>>

\* The PageResult extractPage returns: from the page cache, or assembled
\* after fetch and extraction. content stands for its token estimate.
extractPage(url, contentTokens, cached) ==
    IF cached
    THEN [url |-> url, title |-> "title", content |-> contentTokens, length |-> contentTokens,
          links |-> <<>>, fromCache |-> TRUE]
    ELSE [url |-> url, title |-> "title", content |-> contentTokens, length |-> contentTokens,
          links |-> WebLinks(url), fromCache |-> FALSE]

\* The truthiness test pageResult.html of crawl.
hasHtml(pageResult) == "html" \in DOMAIN pageResult

\* An iteration of crawl in which extractPage returns its PageResult.
PipelineExtractOk(contentTokens, cached) ==
    /\ crawlPc = "loop"
    /\ LET pageResult == extractPage(shift(queue).entry.url, contentTokens, cached)
       IN  CrawlExtractOk(pageResult.content, hasHtml(pageResult),
                          IF hasHtml(pageResult) THEN pageResult.html ELSE <<>>)

NextPipelineCrawl ==
    \/ \E st \in CrawlUrls, o \in OptionChoices, w \in BOOLEAN : CrawlCall(st, o, w)
    \/ CrawlExtractFails
    \/ \E t \in PageTokens, c \in BOOLEAN : PipelineExtractOk(t, c)

SpecPipelineCrawl == InitCrawl /\ [][NextPipelineCrawl]_vars

\* The links of the page's raw body that pass the filters of the crawl.
FilteredWebLinks(url) ==
    filterLinks(extractLinks(WebLinks(url), url), extractDomain(opts.start),
                linkFilterOptions(opts))

\* C14: when a page is extracted by extractPage and the total stays under
\* budget, every link of its raw body that passes the filters and is not yet
\* visited is appended to the frontier at depth + 1 and processed in its turn:
\* a crawl that returns without the budget tripping has visited every
\* filtered link of every page it holds.
C14_LinksOfExtractedPagesAreFollowed ==
    (crawlPc = "returned" /\ ~budgetTripped) =>
        \A i \in 1..Len(pages) :
            LET links == FilteredWebLinks(pages[i].url)
            IN  /\ pages[i].links_found = Len(WebLinks(pages[i].url))
                /\ \A k \in 1..Len(links) : links[k].url \in visited
\* handleCrawl: the options it hands to crawl for the tool parameters; an
\* omitted allowed_domains, exclude_patterns or include_patterns is passed on
\* as undefined (the empty set here).
handleCrawlOptions(params) ==
    Options(params.max_tokens, params.allowed_domains, params.include_patterns,
            params.exclude_patterns)

\* The crawl runs with the options handleCrawl builds when the tool call
\* omits allowed_domains.
CalledWithoutAllowedDomains ==
    opts.allowedDomains =
        handleCrawlOptions([max_tokens |-> opts.maxTokens, allowed_domains |-> {},
                            include_patterns |-> opts.includePatterns,
                            exclude_patterns |-> opts.excludePatterns]).allowedDomains

PassesFilters(u) ==
    /\ opts.allowedDomains # {} => extractDomain(u) \in opts.allowedDomains
    /\ opts.includePatterns # {} => \E pt \in opts.includePatterns : UrlMatches(u, pt)
    /\ \A pt \in opts.excludePatterns : ~UrlMatches(u, pt)

\* C16: a frontier entry is created only for a link that passed filtering:
\* every frontier entry, every fetched url and every page other than the seed
\* is in allowedDomains when that is non-empty, matches an include pattern
\* when include patterns are given, and matches no exclude pattern; only the
\* seed is fetched regardless of the filters.
C16_OnlyFilteredLinksAreFetched ==
    crawlPc \in {"loop", "returned"} =>
        /\ \A i \in 1..Len(queue) : queue[i].depth > 0 => PassesFilters(queue[i].url)
        /\ \A u \in visited \ {opts.start} : PassesFilters(u)
        /\ \A i \in 1..Len(pages) : pages[i].depth > 0 => PassesFilters(pages[i].url)
        /\ \A i \in 1..Len(pages) : pages[i].depth = 0 => (i = 1 /\ pages[i].url = opts.start)

C16_Witness ==
    /\ crawlPc = "returned"
    /\ opts.allowedDomains = {"a.example"}
    /\ opts.start = "https://b.example/docs/2"
    /\ ~PassesFilters(opts.start)
    /\ Len(pages) = 4
    /\ pages[1].links_found = 2
(***************************************************************************)
(* services/queue.ts: QueueManager                                         *)
(* A task is "domainWaiting" in its domain queue, "globalWaiting" once the *)
(* domain queue has started it and it waits in globalQueue, "running"      *)
(* while fn runs, then "resolved" or "rejected".  clearPending leaves a    *)
(* task "cleared" (dropped from a domain queue) or "stuck" (dropped from   *)
(* globalQueue while its domain queue still counts it as running).         *)
(***************************************************************************)
\* The clock advances in steps of ClockStep up to MaxTime.
ClockStep == 1000
MaxTime == 3000

\* Mutant of DomainPending: one gate is shared by all domains.
DomainPending_AnyDomain(ts, d) ==
    \E t \in TaskIds : ts[t].state \in {"globalWaiting", "running", "stuck"}

\* Mutant of DomainPending: the domain queue never counts a task as pending.
DomainPending_Never(ts, d) == FALSE

\* Mutant of DomainPending: the domain slot is given up once the task is
\* handed to globalQueue.
DomainPending_RunningOnly(ts, d) ==
    \E t \in TaskIds : ts[t].domain = d /\ ts[t].state = "running"

\* Mutant of DomainPending: a task that failed keeps the slot of its domain.
DomainPending_KeepsFailed(ts, d) ==
    \E t \in TaskIds :
        ts[t].domain = d /\ ts[t].state \in {"globalWaiting", "running", "stuck", "rejected"}

\* The domain queue's task (globalQueueAdd(fn)) is pending: concurrency 1
\* admits no other task of the domain until it settles.
DomainPending(ts, d) ==
    \E t \in TaskIds : ts[t].domain = d /\ ts[t].state \in {"globalWaiting", "running", "stuck"}

RunningCount(ts) == Cardinality({t \in TaskIds : ts[t].state = "running"})

\* Mutant of GlobalHasSlot: one task too many is admitted.
GlobalHasSlot_OffByOne(ts, concurrency) == RunningCount(ts) <= concurrency

\* globalQueue admits another task: fewer than concurrency are running.
GlobalHasSlot(ts, concurrency) == RunningCount(ts) < concurrency

\* The domain queue's interval (intervalCap 1) admits a start at this time.
IntervalAllows(q, time) == time >= q.intervalEnd

RECURSIVE GlobalStartAll(_, _, _)
\* globalQueue starts waiting tasks, oldest first, while it has a slot: fn runs.
GlobalStartAll(st, concurrency, time) ==
    IF st.g # <<>> /\ GlobalHasSlot(st.ts, concurrency)
    THEN GlobalStartAll([g |-> Tail(st.g), dq |-> st.dq,
                         ts |-> [st.ts EXCEPT ![Head(st.g)] =
                                    [@ EXCEPT !.state = "running", !.startedAt = time]]],
                        concurrency, time)
    ELSE st

\* The queue of domain d starts its oldest waiting task when its slot is free
\* and its interval allows: the task calls globalQueueAdd(fn).
DomainStart(st, d, time) ==
    LET q == st.dq[d]
    IN  IF q.queue # <<>> /\ ~DomainPending(st.ts, d) /\ IntervalAllows(q, time)
        THEN [g |-> Append(st.g, Head(q.queue)),
              dq |-> [st.dq EXCEPT ![d] = [created |-> TRUE, queue |-> Tail(q.queue),
                                           intervalEnd |-> time + perDomainInterval]],
              ts |-> [st.ts EXCEPT ![Head(q.queue)].state = "globalWaiting"]]
        ELSE st

RECURSIVE StartAll(_, _, _, _)
\* Every start the queues can make at this moment, the domain queues in the
\* given order.
StartAll(st, order, concurrency, time) ==
    IF order = <<>> THEN GlobalStartAll(st, concurrency, time)
    ELSE StartAll(DomainStart(GlobalStartAll(st, concurrency, time), Head(order), time),
                  Tail(order), concurrency, time)

DomainOrders ==
    {o \in [1..Cardinality(QueueDomains) -> QueueDomains] :
        \A i, j \in 1..Cardinality(QueueDomains) : i # j => o[i] # o[j]}

QueueState == [g |-> globalQueue, dq |-> domainQueues, ts |-> tasks]

QueueBecomes(st) ==
    /\ globalQueue' = st.g
    /\ domainQueues' = st.dq
    /\ tasks' = st.ts

\* A domain queue is idle: nothing waiting, nothing pending.
DomainIdleIn(st, d) == st.dq[d].queue = <<>> /\ ~DomainPending(st.ts, d)

\* globalQueue is idle.
GlobalIdleIn(st) == st.g = <<>> /\ RunningCount(st.ts) = 0

\* await this.globalQueue.onIdle(): resolves at once when globalQueue is
\* idle, else at its next idle event.
DrainAwaitGlobal(st) ==
    [pc |-> IF GlobalIdleIn(st) THEN "resolved" ELSE "awaitGlobal", waiting |-> {}]

\* The pending drain() after a task has settled: the onIdle() promises of the
\* domain queues that went idle resolve; after the last one drain() awaits
\* globalQueue.onIdle().
DrainAfter(dr, st) ==
    IF dr.pc = "awaitDomains"
    THEN LET w == {d \in dr.waiting : ~DomainIdleIn(st, d)}
         IN  IF w = {} THEN DrainAwaitGlobal(st) ELSE [pc |-> "awaitDomains", waiting |-> w]
    ELSE IF dr.pc = "awaitGlobal" THEN DrainAwaitGlobal(st)
    ELSE dr

DrainBecomes(dr) ==
    /\ drainPc' = dr.pc
    /\ drainWaiting' = dr.waiting

\* drain(): onIdle() of every domain queue that exists at the call, then
\* globalQueue.onIdle().
DrainCall ==
    /\ drainPc = "idle"
    /\ DrainBecomes(DrainAfter([pc |-> "awaitDomains",
                                waiting |-> {d \in QueueDomains : domainQueues[d].created}],
                               QueueState))
    /\ UNCHANGED <<globalConcurrency, globalQueue, domainQueues, tasks, now,
                   netVars, sfVars, crawlVars, utilVars, svcVars>>

\* new QueueManager(maxConcurrent?, domainInterval?)
InitQueue ==
    /\ NetIdle
    /\ FetchIdle
    /\ CrawlIdle
    /\ globalConcurrency \in {1, 2, maxConcurrent}
    /\ globalQueue = <<>>
    /\ domainQueues = [d \in QueueDomains |-> NoDomainQueue]
    /\ tasks = [t \in TaskIds |-> NewTask]
    /\ now = 0
    /\ drainPc = "idle"
    /\ drainWaiting = {}
    /\ UtilIdle
    /\ SvcIdle

\* enqueue(domain, fn): getDomainQueue, domainQueue.add; the task starts at
\* once when both queues admit it.
Enqueue(d) ==
    /\ \E i \in 1..Len(TaskOrder) :
          /\ tasks[TaskOrder[i]].state = "new"
          /\ \A j \in 1..(i - 1) : tasks[TaskOrder[j]].state # "new"
          /\ LET t == TaskOrder[i]
                 st == [g |-> globalQueue,
                        dq |-> [domainQueues EXCEPT ![d] =
                                   [@ EXCEPT !.created = TRUE, !.queue = Append(@, t)]],
                        ts |-> [tasks EXCEPT ![t] = [@ EXCEPT !.domain = d,
                                                              !.state = "domainWaiting"]]]
             IN  QueueBecomes(StartAll(st, <<d>>, globalConcurrency, now))
    /\ UNCHANGED <<globalConcurrency, now, drainVars, netVars, sfVars, crawlVars, utilVars, svcVars>>

\* How the promise of fn settles: fulfilled with the result of the task, or
\* rejected with the error the task threw. Each task has its own values.
FnSettles(t, outcome) ==
    IF outcome = "resolved" THEN [kind |-> "fulfilled", value |-> <<"result", t>>]
    ELSE [kind |-> "rejected", value |-> <<"error", t>>]

\* queue.add(fn) of a PQueue: its promise settles as the promise of fn does.
PQueueAdd(settled) == settled

\* Mutant of globalQueueAdd: an error of the task is swallowed.
globalQueueAdd_Swallows(settled) ==
    IF settled.kind = "rejected" THEN [kind |-> "fulfilled", value |-> <<"result", "undefined">>]
    ELSE settled

\* globalQueueAdd: await queue.add(fn), return the result; an error is thrown on.
globalQueueAdd(settled) == PQueueAdd(settled)

\* enqueue: await domainQueue.add(async () => globalQueueAdd(...)), return the result.
enqueueSettles(settled) == PQueueAdd(globalQueueAdd(settled))

\* fn settles: its promise resolves or rejects; both queues release the slot
\* and start what they can.
SettleInQueues(t, outcome) ==
    /\ tasks[t].state = "running"
    /\ LET st == [QueueState EXCEPT !.ts[t].state = outcome,
                                    !.ts[t].promise = enqueueSettles(FnSettles(t, outcome))]
           after == StartAll(st, <<tasks[t].domain>>, globalConcurrency, now)
       IN  /\ QueueBecomes(after)
           /\ DrainBecomes(DrainAfter([pc |-> drainPc, waiting |-> drainWaiting], after))
    /\ UNCHANGED <<globalConcurrency, now>>

TaskSettles(t, outcome) ==
    /\ SettleInQueues(t, outcome)
    /\ UNCHANGED <<netVars, sfVars, crawlVars, utilVars, svcVars>>

\* Time passes; the interval timers of the domain queues fire.
ClockTick(order) ==
    /\ now + ClockStep <= MaxTime
    /\ now' = now + ClockStep
    /\ QueueBecomes(StartAll(QueueState, order, globalConcurrency, now + ClockStep))
    /\ UNCHANGED <<globalConcurrency, drainVars, netVars, sfVars, crawlVars, utilVars, svcVars>>

\* Mutant of ClearPending: the running tasks are dropped as well.
ClearPending_CancelsRunning ==
    /\ globalQueue # <<>> \/ \E d \in QueueDomains : domainQueues[d].queue # <<>>
    /\ globalQueue' = <<>>
    /\ domainQueues' = [d \in QueueDomains |-> [domainQueues[d] EXCEPT !.queue = <<>>]]
    /\ tasks' = [t \in TaskIds |->
                    IF tasks[t].state \in {"domainWaiting", "globalWaiting", "running"}
                    THEN [tasks[t] EXCEPT !.state = "cleared"]
                    ELSE tasks[t]]
    /\ UNCHANGED <<globalConcurrency, now, drainVars, netVars, sfVars, crawlVars, utilVars, svcVars>>

\* clearPending(): globalQueue.clear() and clear() of every domain queue.
ClearPending ==
    /\ globalQueue # <<>> \/ \E d \in QueueDomains : domainQueues[d].queue # <<>>
    /\ globalQueue' = <<>>
    /\ domainQueues' = [d \in QueueDomains |-> [domainQueues[d] EXCEPT !.queue = <<>>]]
    /\ tasks' = [t \in TaskIds |->
                    IF tasks[t].state = "globalWaiting" THEN [tasks[t] EXCEPT !.state = "stuck"]
                    ELSE IF tasks[t].state = "domainWaiting"
                         THEN [tasks[t] EXCEPT !.state = "cleared"]
                    ELSE tasks[t]]
    /\ UNCHANGED <<globalConcurrency, now, drainVars, netVars, sfVars, crawlVars, utilVars, svcVars>>

NextQueue ==
    \/ \E d \in QueueDomains : Enqueue(d)
    \/ \E t \in TaskIds, outcome \in {"resolved", "rejected"} : TaskSettles(t, outcome)
    \/ \E order \in DomainOrders : ClockTick(order)
    \/ ClearPending

SpecQueue == InitQueue /\ [][NextQueue]_vars

\* The manager with one drain() call at any moment, used by callers of two
\* domains that never call clearPending.
DrainDomains == {"a.example", "b.example"}

NextDrain ==
    \/ \E d \in DrainDomains : Enqueue(d)
    \/ \E t \in TaskIds, outcome \in {"resolved", "rejected"} : TaskSettles(t, outcome)
    \/ \E order \in DomainOrders : ClockTick(order)
    \/ DrainCall

SpecDrain == InitQueue /\ [][NextDrain]_vars
TasksOf(d, states) == {t \in TaskIds : tasks[t].domain = d /\ tasks[t].state \in states}

\* The tasks whose fn has started.
Started == {t \in TaskIds : tasks[t].state \in {"running", "resolved", "rejected"}}

InQueue(t, q) == \E i \in 1..Len(q) : q[i] = t

\* C17: at any time at most one task enqueued for a given domain is executing.
C17_OneRunningPerDomain ==
    \A d \in QueueDomains : Cardinality(TasksOf(d, {"running"})) <= 1

C17_Witness ==
    \E d \in QueueDomains :
        /\ Cardinality(TasksOf(d, {"running"})) = 1
        /\ domainQueues[d].queue # <<>>
        /\ IntervalAllows(domainQueues[d], now)
        /\ GlobalHasSlot(tasks, globalConcurrency)

\* C18: for every pair of tasks enqueued for the same domain, the moments at
\* which the two tasks start executing are at least perDomainInterval apart.
C18_StartsSpacedByInterval ==
    \A t, u \in Started :
        (t # u /\ tasks[t].domain = tasks[u].domain /\ tasks[t].startedAt <= tasks[u].startedAt)
            => tasks[u].startedAt - tasks[t].startedAt >= perDomainInterval

\* C19: at any time the number of tasks executing across all domains is at
\* most the concurrency the manager was constructed with (maxConcurrent, 3 by
\* default).
C19_GlobalConcurrencyBound ==
    /\ RunningCount(tasks) <= globalConcurrency
    /\ globalConcurrency <= maxConcurrent

C19_Witness ==
    /\ RunningCount(tasks) = globalConcurrency
    /\ globalQueue # <<>>

\* C20: a task enters the global gate only while it holds the slot of its
\* domain gate: at most one task per domain is waiting or running in the
\* global gate, whatever the backlog of the domain.
C20_DomainFirst ==
    /\ \A d \in QueueDomains : Cardinality(TasksOf(d, {"globalWaiting", "running"})) <= 1
    /\ \A t \in TaskIds :
          InQueue(t, globalQueue) =>
              /\ tasks[t].state = "globalWaiting"
              /\ ~InQueue(t, domainQueues[tasks[t].domain].queue)
    /\ \A t \in TaskIds :
          tasks[t].state = "domainWaiting" => ~InQueue(t, globalQueue)

C20_Witness ==
    \E d \in QueueDomains :
        /\ Cardinality(TasksOf(d, {"globalWaiting"})) = 1
        /\ Len(domainQueues[d].queue) = 2
        /\ Len(globalQueue) = 1
\* The gate of domain d is free: no task of d holds its slot, none waits in
\* its queue, and its interval has elapsed.
DomainGateFree(d) ==
    /\ TasksOf(d, {"globalWaiting", "running", "stuck"}) = {}
    /\ domainQueues[d].queue = <<>>
    /\ now >= domainQueues[d].intervalEnd

\* This step is the call enqueue(d, fn) for task t.
EnqueueStep(t, d) == tasks[t].state = "new" /\ tasks'[t].state # "new" /\ tasks'[t].domain = d

\* C21: tasks for different domains do not wait on each other: a task
\* enqueued for a domain whose gate is free, while fewer than the allowed
\* number of tasks are running, starts in that very call, whatever tasks of
\* other domains are running.
C21_DomainsDoNotWaitOnEachOther ==
    [][\A t \in TaskIds, d \in QueueDomains :
          (EnqueueStep(t, d) /\ DomainGateFree(d) /\ RunningCount(tasks) < globalConcurrency)
              => (tasks'[t].state = "running" /\ tasks'[t].startedAt = now)]_vars

C21_Witness ==
    \E t, u \in TaskIds :
        /\ tasks[t].domain # tasks[u].domain
        /\ tasks[t].state = "running" /\ tasks[u].state = "running"
        /\ tasks[t].startedAt = 0 /\ tasks[u].startedAt = 1000
        /\ now = 1000
\* C22: when a task fails, the promise of its enqueue call rejects with the
\* very error of the task, and no task of another caller is cancelled or
\* failed by it: the others keep their place or move on, their promises
\* untouched.
C22_ErrorPropagatesUnchanged ==
    [][\A t \in TaskIds :
          (tasks[t].state = "running" /\ tasks'[t].state = "rejected") =>
              /\ tasks'[t].promise = [kind |-> "rejected", value |-> <<"error", t>>]
              /\ \A u \in TaskIds \ {t} :
                    /\ tasks'[u].promise = tasks[u].promise
                    /\ \/ tasks'[u].state = tasks[u].state
                       \/ /\ tasks[u].state \in {"domainWaiting", "globalWaiting"}
                          /\ tasks'[u].state \in {"globalWaiting", "running"}]_vars

C22_Witness ==
    \E t, u \in TaskIds :
        /\ tasks[t].state = "rejected"
        /\ tasks[t].promise.kind = "rejected"
        /\ tasks[u].domain = tasks[t].domain
        /\ tasks[u].state = "resolved"
        /\ tasks[u].promise = [kind |-> "fulfilled", value |-> <<"result", u>>]
        /\ tasks[u].startedAt > tasks[t].startedAt
AllGatesIdle ==
    /\ GlobalIdleIn(QueueState)
    /\ \A d \in QueueDomains : DomainIdleIn(QueueState, d)

\* C23: the promise of drain() resolves only at a moment when every domain
\* gate and the global gate are idle, whatever enqueue calls interleave with
\* the pending drain.
C23_DrainResolvesWhenIdle ==
    [][(drainPc # "resolved" /\ drainPc' = "resolved") => AllGatesIdle']_vars
\* This step is a clearPending() call: it drops a task.
ClearStep ==
    \E t \in TaskIds :
        tasks[t].state \notin {"cleared", "stuck"} /\ tasks'[t].state \in {"cleared", "stuck"}

\* C24: clearPending() removes every task that has not started yet from the
\* global gate and from every domain gate and leaves every running task as it
\* is; a running task runs to completion and the promise of its enqueue call
\* settles with its result or its error.
C24_ClearPendingKeepsRunning ==
    [][/\ ClearStep =>
             /\ globalQueue' = <<>>
             /\ \A d \in QueueDomains : domainQueues'[d].queue = <<>>
             /\ \A t \in TaskIds :
                   /\ tasks[t].state \in {"domainWaiting", "globalWaiting"}
                         => tasks'[t].state \in {"cleared", "stuck"}
                   /\ tasks[t].state \notin {"domainWaiting", "globalWaiting"}
                         => tasks'[t] = tasks[t]
       /\ \A t \in TaskIds :
             (tasks[t].state = "running" /\ tasks'[t].state # "running") =>
                 \/ tasks'[t].state = "resolved"
                       /\ tasks'[t].promise = [kind |-> "fulfilled", value |-> <<"result", t>>]
                 \/ tasks'[t].state = "rejected"
                       /\ tasks'[t].promise = [kind |-> "rejected", value |-> <<"error", t>>]]_vars

C24_Witness ==
    \E t, u, w \in TaskIds :
        /\ tasks[t].state = "resolved" /\ tasks[t].promise.kind = "fulfilled"
        /\ tasks[u].state = "stuck"
        /\ tasks[w].state = "cleared"
        /\ \A x \in TaskIds \ {t, u, w} : tasks[x].state = "new"
        /\ globalConcurrency = 1

(***************************************************************************)
(* matchesPattern applied to one url and one pattern                       *)
(***************************************************************************)
\* Longest url and longest pattern tried.
MaxUrlLen == 3
MaxPatternLen == 3

\* Texts over an alphabet, up to a length.
TextsUpTo(alphabet, n) == UNION {[1..k -> alphabet] : k \in 0..n}

\* Letters in both cases and two characters that are special in a regular
\* expression; the patterns also hold the wildcard.
MatchUrls == TextsUpTo({"a", "A", ".", "?"}, MaxUrlLen)
MatchPatterns == TextsUpTo({"a", "*", ".", "?"}, MaxPatternLen)

InitMatch ==
    /\ NetIdle
    /\ FetchIdle
    /\ CrawlIdle
    /\ QueueIdle
    /\ callPc = "idle"
    /\ callArgs \in [url : MatchUrls, pattern : MatchPatterns]
    /\ callResult = <<>>
    /\ SvcIdle

CallMatchesPattern ==
    /\ callPc = "idle"
    /\ callPc' = "returned"
    /\ callResult' = matchesPattern(callArgs.url, callArgs.pattern)
    /\ UNCHANGED <<callArgs, netVars, sfVars, crawlVars, qmVars, svcVars>>

NextMatch == CallMatchesPattern

SpecMatch == InitMatch /\ [][NextMatch]_vars

RECURSIVE GlobMatches(_, _)
\* The text is the pattern, read with "*" as any run of characters and every
\* other character as itself, whatever its case.
GlobMatches(text, pattern) ==
    IF pattern = <<>> THEN text = <<>>
    ELSE IF Head(pattern) = "*"
    THEN \E k \in 0..Len(text) : GlobMatches(SubSeq(text, k + 1, Len(text)), Tail(pattern))
    ELSE /\ text # <<>>
         /\ toLowerCase(<<Head(text)>>) = toLowerCase(<<Head(pattern)>>)
         /\ GlobMatches(Tail(text), Tail(pattern))

HasStar(pattern) == \E i \in 1..Len(pattern) : pattern[i] = "*"

UrlSchemes == {Chars("http:"), Chars("HTTPS:"), Chars("foo:")}
UrlAuthorities == {<<>>, Chars("//example.com"), Chars("//EXAMPLE.com:80"),
                   Chars("//example.com:443"), Chars("//u:p@example.com:8080")}
UrlPaths == {<<>>, Chars("/"), Chars("/a"), Chars("/a/"), Chars("//"), Chars("/A/../b/.")}
UrlQueries == {<<>>, Chars("?"), Chars("?b=2&a=1"), Chars("?a=2&a=1&A=3"),
               Chars("?a=x y&&b"), Chars("?%7e=+%41")}
UrlFragments == {<<>>, Chars("#"), Chars("#frag")}

UrlTexts ==
    {s \o a \o p \o q \o f : s \in UrlSchemes, a \in UrlAuthorities, p \in UrlPaths,
                             q \in UrlQueries, f \in UrlFragments}

InitNormalize ==
    /\ NetIdle
    /\ FetchIdle
    /\ CrawlIdle
    /\ QueueIdle
    /\ callPc = "idle"
    /\ callArgs \in [url : UrlTexts]
    /\ callResult = <<>>
    /\ SvcIdle

CallNormalizeUrl ==
    /\ callPc = "idle"
    /\ callPc' = "returned"
    /\ callResult' = normalizeUrl(callArgs.url)
    /\ UNCHANGED <<callArgs, netVars, sfVars, crawlVars, qmVars, svcVars>>

NextNormalize == CallNormalizeUrl

SpecNormalize == InitNormalize /\ [][NextNormalize]_vars

\* C30: for every valid url u, normalizeUrl(normalizeUrl(u)) equals
\* normalizeUrl(u).
C30_NormalizeIsIdempotent ==
    (callPc = "returned" /\ callResult # TypeError) =>
        normalizeUrl(callResult) = callResult

\* A url that normalizeUrl changes in scheme, host, port, query and fragment.
C30_Witness ==
    /\ callPc = "returned"
    /\ callArgs.url = Chars("HTTPS://EXAMPLE.com:80/a/?b=2&a=1#frag")
    /\ callResult = Chars("https://example.com:80/a/?a=1&b=2")

(***************************************************************************)
(* extractLinks applied to one page, without options                       *)
(***************************************************************************)
\* Largest number of a[href] elements on the page.
MaxAnchors == 3

\* The href attributes the elements can have.
Hrefs ==
    {Chars("/a"), Chars("/a#x"), Chars(" /A/../a "), Chars("b?y=1&x=2"),
     Chars("//Other.example/"), Chars("javascript:x"), Chars("MAILTO:u@example.com"),
     Chars("#top"), Chars(" "), Chars("http://"), Chars("ws://example.com/a")}

PageUrl == Chars("https://example.com/d/p")

\* The text of the i-th element of the page: its position, in blanks.
AnchorText(i) == <<" ">> \o DecStr(i) \o <<" ">>

Pages ==
    {[i \in 1..Len(hs) |-> [href |-> hs[i], text |-> AnchorText(i)]] :
        hs \in UNION {[1..k -> Hrefs] : k \in 0..MaxAnchors}}

InitLinks ==
    /\ NetIdle
    /\ FetchIdle
    /\ CrawlIdle
    /\ QueueIdle
    /\ callPc = "idle"
    /\ callArgs \in [anchors : Pages, baseUrl : {PageUrl}]
    /\ callResult = <<>>
    /\ SvcIdle

CallExtractLinks ==
    /\ callPc = "idle"
    /\ callPc' = "returned"
    /\ callResult' = collectLinks(callArgs.anchors, callArgs.baseUrl)
    /\ UNCHANGED <<callArgs, netVars, sfVars, crawlVars, qmVars, svcVars>>

NextLinks == CallExtractLinks

SpecLinks == InitLinks /\ [][NextLinks]_vars

\* The position on the page of the element a returned link has its text from.
AnchorOf(link) == CHOOSE i \in 1..MaxAnchors + 1 : DecStr(i) = link.text

\* The element at position j gets as far as deduplication: its href is not
\* blank, not a fragment, has no scheme of the non-fetchable list, and resolves.
ReachesDedup(j) ==
    LET h == trim(callArgs.anchors[j].href)
    IN  /\ h # <<>>
        /\ h[1] # "#"
        /\ ~\E sch \in {"javascript:", "mailto:", "tel:", "data:", "blob:", "ftp:", "file:"} :
               startsWith(toLowerCase(h), Chars(sch))
        /\ resolveUrl(callArgs.baseUrl, h) # TypeError

\* The normalized url the element at position j points to.
TargetOf(j) == normalizeUrl(resolveUrl(callArgs.baseUrl, trim(callArgs.anchors[j].href)))

IsHttpUrl(u) == startsWith(u, Chars("http://")) \/ startsWith(u, Chars("https://"))

\* C25: extractLinks returns at most one link per normalized url; of the
\* elements that normalize to the same url the first in document order is
\* the one kept, with its text, and the links keep document order.
C25_FirstOccurrenceWins ==
    (callPc = "returned" /\ ~callResult.threw) =>
        /\ \A a, b \in 1..Len(callResult.links) :
               a # b => callResult.links[a].url # callResult.links[b].url
        /\ \A k \in 1..Len(callResult.links) :
               LET i == AnchorOf(callResult.links[k])
               IN  /\ i <= Len(callArgs.anchors)
                   /\ ReachesDedup(i)
                   /\ TargetOf(i) = callResult.links[k].url
                   /\ \A j \in 1..(i - 1) :
                          ReachesDedup(j) => TargetOf(j) # callResult.links[k].url
        /\ \A a, b \in 1..Len(callResult.links) :
               a < b => AnchorOf(callResult.links[a]) < AnchorOf(callResult.links[b])

\* The page <a href="/a">1</a><a href="/a#x">2</a><a href="javascript:x">3</a>
\* yields the one link with text "1" and url https://example.com/a.
C25_Witness ==
    /\ callPc = "returned"
    /\ Len(callArgs.anchors) = 3
    /\ callArgs.anchors[1].href = Chars("/a")
    /\ callArgs.anchors[2].href = Chars("/a#x")
    /\ callArgs.anchors[3].href = Chars("javascript:x")
    /\ callResult.links = <<[text |-> Chars("1"), url |-> Chars("https://example.com/a"),
                             isInternal |-> TRUE]>>

\* C26: every link extractLinks returns is an absolute, normalized http or
\* https url; a fragment-only target and a target with a scheme of the
\* non-fetchable list, in any case, is never returned; a target that does
\* not resolve is dropped, extractLinks does not fail and the other links
\* are all returned.
C26_OnlyFetchableLinks ==
    callPc = "returned" =>
        /\ ~callResult.threw
        /\ \A k \in 1..Len(callResult.links) :
               /\ IsHttpUrl(callResult.links[k].url)
               /\ normalizeUrl(callResult.links[k].url) = callResult.links[k].url
               /\ AnchorOf(callResult.links[k]) <= Len(callArgs.anchors)
               /\ ReachesDedup(AnchorOf(callResult.links[k]))
        /\ \A j \in 1..Len(callArgs.anchors) :
               (ReachesDedup(j) /\ IsHttpUrl(TargetOf(j))) =>
                   \E k \in 1..Len(callResult.links) : callResult.links[k].url = TargetOf(j)

\* An unresolvable target, a fetchable one and a mailto: in upper case: the
\* fetchable one alone is returned.
C26_Witness ==
    /\ callPc = "returned"
    /\ Len(callArgs.anchors) = 3
    /\ callArgs.anchors[1].href = Chars("http://")
    /\ callArgs.anchors[2].href = Chars("b?y=1&x=2")
    /\ callArgs.anchors[3].href = Chars("MAILTO:u@example.com")
    /\ callResult.links = <<[text |-> Chars("2"), url |-> Chars("https://example.com/d/b?x=2&y=1"),
                             isInternal |-> TRUE]>>

(***************************************************************************)
(* filterLinks applied to the links of one page                            *)
(***************************************************************************)
\* Largest number of links passed to filterLinks.
MaxFilterLinks == 3

\* The page the links were extracted from.
FilterPageUrl == "https://a.example"

\* What extractLinks hands over: distinct urls, isInternal set against the page.
FilterInputs ==
    {extractLinks(q, FilterPageUrl) :
        q \in {t \in UNION {[1..k -> FilterUrls] : k \in 0..MaxFilterLinks} :
                  \A a, b \in 1..Len(t) : a # b => t[a] # t[b]}}

FilterOptions ==
    [filter : {"all", "internal", "external"},
     allowedDomains : {{}, {"A.Example"}, {"b.example"}, {"example", "b.example"}},
     includePatterns : {{}, {"*/docs/*"}, {"*/docs/*", "*/admin/*"}},
     excludePatterns : {{}, {"*/admin/*"}}]

InitFilter ==
    /\ NetIdle
    /\ FetchIdle
    /\ CrawlIdle
    /\ QueueIdle
    /\ callPc = "idle"
    /\ callArgs \in [links : FilterInputs, baseDomain : {extractDomain(FilterPageUrl)},
                     options : FilterOptions]
    /\ callResult = <<>>
    /\ SvcIdle

CallFilterLinks ==
    /\ callPc = "idle"
    /\ callPc' = "returned"
    /\ callResult' = filterLinks(callArgs.links, callArgs.baseDomain, callArgs.options)
    /\ UNCHANGED <<callArgs, netVars, sfVars, crawlVars, qmVars, svcVars>>

NextFilter == CallFilterLinks

SpecFilter == InitFilter /\ [][NextFilter]_vars

\* The hostname of a link and the patterns it matches, from its text.
HostnameOf(link) == hostname(ParseURL(Chars(link.url), NoBase))
MatchesAny(link, patterns) ==
    \E pt \in patterns : matchesPattern(Chars(link.url), Chars(pt))

\* The link satisfies every filter that options makes active.
SatisfiesFilters(link, options) ==
    /\ options.filter = "internal" => link.isInternal
    /\ options.filter = "external" => ~link.isInternal
    /\ options.allowedDomains # {} =>
           \E d \in options.allowedDomains : toLowerCase(Chars(d)) = HostnameOf(link)
    /\ options.includePatterns # {} => MatchesAny(link, options.includePatterns)
    /\ ~MatchesAny(link, options.excludePatterns)

\* C27: filterLinks drops every link that matches an exclude pattern, also
\* when it matches an include pattern; it keeps exactly the links that
\* satisfy every active filter, in the order of the input.
C27_ExcludeWinsAndOrderKept ==
    callPc = "returned" =>
        LET Kept(link) == SatisfiesFilters(link, callArgs.options)
        IN  /\ callResult = SelectSeq(callArgs.links, Kept)
            /\ \A k \in 1..Len(callResult) :
                   ~MatchesAny(callResult[k], callArgs.options.excludePatterns)

\* A link under /admin/docs/ matches the include and the exclude pattern and
\* is dropped; the two other links are kept in their order.
C27_Witness ==
    /\ callPc = "returned"
    /\ callArgs.options = [filter |-> "all", allowedDomains |-> {},
                           includePatterns |-> {"*/docs/*"},
                           excludePatterns |-> {"*/admin/*"}]
    /\ Len(callArgs.links) = 3
    /\ callArgs.links[1].url = "https://b.example/docs/2"
    /\ callArgs.links[2].url = "https://b.example/admin/docs/4"
    /\ callArgs.links[3].url = "https://a.example/docs/1"
    /\ Len(callResult) = 2
    /\ callResult[1].url = "https://b.example/docs/2"
    /\ callResult[2].url = "https://a.example/docs/1"

RECURSIVE UpTo(_, _)
\* The characters of s in front of its first character of stops.
UpTo(s, stops) ==
    IF s = <<>> \/ Head(s) \in stops THEN <<>> ELSE <<Head(s)>> \o UpTo(Tail(s), stops)

RawScheme(t) == Before(t, <<":">>)
RawAfterScheme(t) == substringFrom(t, Len(RawScheme(t)) + 1)
HasAuthority(t) == startsWith(RawAfterScheme(t), <<"/", "/">>)
RawAuthority(t) == UpTo(substringFrom(RawAfterScheme(t), 2), {"/", "?", "#"})
RawHostPort(t) ==
    LET a == RawAuthority(t) IN substringFrom(a, LastIndexOf(a, "@", Len(a) - 1) + 1)
RawHost(t) == Before(RawHostPort(t), <<":">>)
RawPort(t) == After(RawHostPort(t), <<":">>)
RawPath(t) ==
    UpTo(substringFrom(RawAfterScheme(t), 2 + Len(RawAuthority(t))), {"?", "#"})
RawQuery(t) == After(Before(t, <<"#">>), <<"?">>)
RawKeys(t) ==
    IF RawQuery(t) = Null THEN <<>>
    ELSE LET ps == split(RawQuery(t), <<"&">>)
         IN  [i \in 1..Len(ps) |-> Before(ps[i], <<"=">>)]

\* The port the scheme implies: 80 for http, 443 for https.
ImpliedPort(scheme) ==
    IF scheme = Chars("http") THEN Chars("80")
    ELSE IF scheme = Chars("https") THEN Chars("443")
    ELSE Null

\* The path of the url as the URL class reads it (dot segments resolved, an
\* empty path of http and https read as "/").
ReadPath(t) == pathname(ParseURL(t, NoBase))

\* What the normalization steps make of the url u is the url r.
NormalizationSteps(u, r) ==
    /\ RawScheme(r) = toLowerCase(RawScheme(u))
    /\ RawHost(r) = toLowerCase(RawHost(u))
    /\ IndexOf(r, <<"#">>, 0) = -1
    /\ RawPort(r) = IF RawPort(u) = ImpliedPort(toLowerCase(RawScheme(u)))
                    THEN Null
                    ELSE RawPort(u)
    /\ \A i \in 1..Len(RawKeys(r)) - 1 : ~codeUnitsLess(RawKeys(r)[i + 1], RawKeys(r)[i])
    /\ RawPath(r) = IF ReadPath(u) = <<"/">> /\ RawQuery(u) \in {Null, <<>>}
                    THEN <<>>
                    ELSE ReadPath(u)

\* C31: the url normalizeUrl returns has the scheme and the host of its
\* argument in lower case, no fragment, the port of the argument unless it is
\* the default port of the scheme, its query parameters in the order of their
\* keys, and the path of the argument, except that the path "/" without a
\* query string is dropped.
C31_NormalizationSteps ==
    (callPc = "returned" /\ callResult # TypeError /\ HasAuthority(callArgs.url)) =>
        NormalizationSteps(callArgs.url, callResult)

(***************************************************************************)
(* crawler/token-counter.ts: estimateTokens.  A text is the sequence of    *)
(* its UTF-16 code units, which is what length, match and replace count.   *)
(* A number with a fraction is kept as the pair [num, den].  The counts    *)
(* met here are far below the size at which a quotient of two of them      *)
(* could round onto the other side of 0.3 or onto a whole number, so       *)
(* the comparisons and Math.ceil are computed on the integers.             *)
(***************************************************************************)
\* The character class of CJK_REGEX.
CJK_REGEX(c) ==
    \/ c \in 12288..12351      \* u3000-u303f
    \/ c \in 12352..12447      \* u3040-u309f
    \/ c \in 12448..12543      \* u30a0-u30ff
    \/ c \in 19968..40879      \* u4e00-u9faf
    \/ c \in 44032..55215      \* uac00-ud7af
    \/ c \in 65280..65519      \* uff00-uffef

\* The character class \s of a regular expression.
WhiteSpaceClass(c) ==
    \/ c \in 9..13
    \/ c \in {32, 160, 5760, 8232, 8233, 8239, 8287, 12288, 65279}
    \/ c \in 8192..8202

CJK_THRESHOLD == [num |-> 3, den |-> 10]
CHARS_PER_TOKEN_ENGLISH == [num |-> 4, den |-> 1]
CHARS_PER_TOKEN_CJK == [num |-> 3, den |-> 2]
CHARS_PER_TOKEN_MIXED == [num |-> 3, den |-> 1]

RECURSIVE matchCount(_, _)
\* text.match(regex) with the g flag: the number of matches of a class.
matchCount(text, i) ==
    IF i > Len(text) THEN 0
    ELSE (IF CJK_REGEX(text[i]) THEN 1 ELSE 0) + matchCount(text, i + 1)

countCjkCharacters(text) == matchCount(text, 1)

RECURSIVE replaceWhiteSpace(_)
\* text.replace(/\s/g, "")
replaceWhiteSpace(text) ==
    IF text = <<>> THEN <<>>
    ELSE (IF WhiteSpaceClass(Head(text)) THEN <<>> ELSE <<Head(text)>>)
             \o replaceWhiteSpace(Tail(text))

\* Mutant of ratioAtLeastThreshold: the threshold itself is not enough.
ratioAtLeastThreshold_Strict(cjkCount, nonWhitespaceLength) ==
    cjkCount * CJK_THRESHOLD.den > CJK_THRESHOLD.num * nonWhitespaceLength

\* cjkRatio >= CJK_THRESHOLD, for cjkRatio = cjkCount / nonWhitespaceLength
ratioAtLeastThreshold(cjkCount, nonWhitespaceLength) ==
    cjkCount * CJK_THRESHOLD.den >= CJK_THRESHOLD.num * nonWhitespaceLength

detectCharsPerToken(text) ==
    LET cjkCount == countCjkCharacters(text)
        nonWhitespaceLength == Len(replaceWhiteSpace(text))
    IN  IF cjkCount = 0 THEN CHARS_PER_TOKEN_ENGLISH
        ELSE IF nonWhitespaceLength = 0 THEN CHARS_PER_TOKEN_ENGLISH
        ELSE IF ratioAtLeastThreshold(cjkCount, nonWhitespaceLength)
        THEN CHARS_PER_TOKEN_CJK
        ELSE CHARS_PER_TOKEN_MIXED

\* Math.ceil(n / d) for a whole number n and a divisor d = num / den.
ceilOfQuotient(n, d) == ((n * d.den) + d.num - 1) \div d.num

estimateTokens(text) ==
    IF Len(text) = 0 THEN 0
    ELSE LET estimated == ceilOfQuotient(Len(text), detectCharsPerToken(text))
         IN  IF estimated > 1 THEN estimated ELSE 1

(***************************************************************************)
(* estimateTokens applied to one text                                      *)
(***************************************************************************)
MaxLatin == 10
MaxCjk == 4
MaxBlanks == 2
MaxIdeographicSpaces == 2

\* n times the code unit c.
Repeat(c, n) == [i \in 1..n |-> c]

\* Latin letters, an ideograph and a Hangul syllable, blanks and line
\* breaks, and U+3000, which is a CJK character and white space at once.
TokenTexts ==
    {Repeat(97, a) \o Repeat(k, c) \o Repeat(b, w) \o Repeat(12288, s) \o Repeat(97, a2) :
        a \in 0..MaxLatin, k \in {26085, 44032}, c \in 0..MaxCjk,
        b \in {32, 10}, w \in 0..MaxBlanks, s \in 0..MaxIdeographicSpaces, a2 \in 0..1}

InitTokens ==
    /\ NetIdle
    /\ FetchIdle
    /\ CrawlIdle
    /\ QueueIdle
    /\ callPc = "idle"
    /\ callArgs \in [text : TokenTexts]
    /\ callResult = <<>>
    /\ SvcIdle

CallEstimateTokens ==
    /\ callPc = "idle"
    /\ callPc' = "returned"
    /\ callResult' = estimateTokens(callArgs.text)
    /\ UNCHANGED <<callArgs, netVars, sfVars, crawlVars, qmVars, svcVars>>

NextTokens == CallEstimateTokens

SpecTokens == InitTokens /\ [][NextTokens]_vars

\* The CJK characters and the characters that are not white space, counted
\* on the text.
CjkIn(text) == Cardinality({i \in 1..Len(text) : CJK_REGEX(text[i])})
NonWhiteIn(text) == Cardinality({i \in 1..Len(text) : ~WhiteSpaceClass(text[i])})

\* The least whole number that is at least 1 and at least n * den / num.
CeilAtLeastOne(n, num, den) ==
    CHOOSE e \in 1..(n * den + 1) :
        /\ e * num >= n * den
        /\ e = 1 \/ (e - 1) * num < n * den

FlightDomains == {"a.example", "b.example"}

\* The fetch() of task t resolves with a Response: the task settles, and
\* safeFetch either throws (status not ok, or a content type it does not
\* accept) or begins to read the body.
FetchResponds(t, accepted) ==
    /\ SettleInQueues(t, "resolved")
    /\ bodyReading' = IF accepted THEN bodyReading \cup {t} ELSE bodyReading
    /\ UNCHANGED <<netVars, sfVars, crawlVars, utilVars, cacheVars, concVars>>

\* The fetch() of task t rejects (network error, timeout): safeFetch throws.
FetchThrows(t) ==
    /\ SettleInQueues(t, "rejected")
    /\ UNCHANGED <<netVars, sfVars, crawlVars, utilVars, svcVars>>

\* readBodyWithLimit comes to its end: the last chunk was read, or the size
\* limit or a read error ended it.
BodyReadEnds(t) ==
    /\ t \in bodyReading
    /\ bodyReading' = bodyReading \ {t}
    /\ UNCHANGED <<netVars, sfVars, crawlVars, qmVars, utilVars, cacheVars, concVars>>

NextInFlight ==
    \/ \E d \in FlightDomains : Enqueue(d)
    \/ \E t \in TaskIds, accepted \in BOOLEAN : FetchResponds(t, accepted)
    \/ \E t \in TaskIds : FetchThrows(t)
    \/ \E t \in TaskIds : BodyReadEnds(t)
    \/ \E order \in DomainOrders : ClockTick(order)

SpecInFlight == InitQueue /\ [][NextInFlight]_vars

\* The safeFetch calls between the start of their HTTP request and the end
\* of reading the response body.
InFlight == {t \in TaskIds : tasks[t].state = "running" \/ t \in bodyReading}

\* C33: at any time at most maxConcurrent safeFetch calls (the concurrency
\* the queue was built with) are between the start of their request and the
\* end of reading the body, and at most one of them per domain.
C33_InFlightCapped ==
    /\ Cardinality(InFlight) <= globalConcurrency
    /\ \A d \in QueueDomains : Cardinality({t \in InFlight : tasks[t].domain = d}) <= 1

(***************************************************************************)
(* services/cache.ts: the page cache, and extractor/pipeline.ts:           *)
(* extractPage.  The cache is the set of its entries [key, page].  The     *)
(* article of a page is kept as the Markdown turndown makes of it, with    *)
(* and without its hyperlinks.                                             *)
(***************************************************************************)
PAGE_PREFIX == "page:"
cacheMaxKeys == 500

\* The SHA-256 digest of the url text, kept as the text it was computed
\* from under a tag: equal for equal texts and different for different ones.
hashUrl(url) == <<"sha256", url>>

pageKey(url) == <<PAGE_PREFIX, hashUrl(url)>>

NoCachedPage == [title |-> "", content |-> <<>>, length |-> 0]

\* cacheManager.getPage(url): the entry under the key of the url text.
getPage(cache, url) ==
    IF \E entry \in cache : entry.key = pageKey(url)
    THEN [hit |-> TRUE, page |-> (CHOOSE entry \in cache : entry.key = pageKey(url)).page]
    ELSE [hit |-> FALSE, page |-> NoCachedPage]

\* cacheManager.setPage(url, page): the cache afterwards; a full cache
\* makes set() throw, which setPage catches.
setPage(cache, url, page) ==
    IF Cardinality(cache) >= cacheMaxKeys THEN cache
    ELSE {entry \in cache : entry.key # pageKey(url)} \cup {[key |-> pageKey(url), page |-> page]}

\* truncateAtWordBoundary(text, maxLength)
truncateAtWordBoundary(text, maxLength) ==
    LET ELLIPSIS == Chars(" ...")
        targetLength == maxLength - Len(ELLIPSIS)
        truncated == substring(text, 0, targetLength)
        lastSpace == LastIndexOf(truncated, " ", Len(truncated) - 1)
    IN  IF targetLength <= 0 THEN substring(text, 0, maxLength)
        ELSE IF lastSpace > 0 THEN substring(truncated, 0, lastSpace) \o ELLIPSIS
        ELSE truncated \o ELLIPSIS

\* htmlToMarkdown(html, options) for the article html of a page.
htmlToMarkdown(article, options) ==
    LET markdown == IF options.includeLinks THEN article.withLinks ELSE article.plain
    IN  IF options.maxLength # Absent /\ options.maxLength > 0 /\ Len(markdown) > options.maxLength
        THEN truncateAtWordBoundary(markdown, options.maxLength)
        ELSE markdown

\* resolvedOptions of extractPage; an absent includeLinks is "undefined".
resolvedOptions(options) ==
    [includeLinks |-> options.includeLinks # "false",
     maxLength |-> IF options.maxLength = Absent THEN 0 ELSE options.maxLength]

\* markdownOptions of extractPage: maxLength is passed on only when positive.
markdownOptions(resolved) ==
    [includeLinks |-> resolved.includeLinks,
     maxLength |-> IF resolved.maxLength > 0 THEN resolved.maxLength ELSE Absent]

\* The pages of the web, by normalized url.
WebPage(url) ==
    IF url = Chars("https://example.com/p")
    THEN [title |-> "P", withLinks |-> Chars("ab [cd](u) ef gh"), plain |-> Chars("ab cd ef gh")]
    ELSE [title |-> "Q", withLinks |-> Chars("xy"), plain |-> Chars("xy")]

\* The url texts extractPage is called with: two of them have the same
\* normalized form.
RawUrls == {Chars("https://example.com/p"), Chars("HTTPS://EXAMPLE.com:443/p#top"),
            Chars("https://example.com/q")}

PipelineOptionChoices ==
    {[includeLinks |-> i, maxLength |-> m] :
        i \in {"undefined", "false"}, m \in {Absent, 0, 3, 8}}

EpCallOrder == <<"e1", "e2">>
EpCallIds == {EpCallOrder[i] : i \in 1..Len(EpCallOrder)}

NoPageResult == [title |-> "", content |-> <<>>, length |-> 0, fromCache |-> FALSE]
IdleCall ==
    [pc |-> "idle", url |-> <<>>, options |-> [includeLinks |-> "undefined", maxLength |-> Absent],
     result |-> NoPageResult]

InitExtract ==
    /\ NetIdle
    /\ FetchIdle
    /\ CrawlIdle
    /\ QueueIdle
    /\ UtilIdle
    /\ bodyReading = {}
    /\ pageCache = {}
    /\ epCalls = [c \in EpCallIds |-> IdleCall]
    /\ crawls = <<>>
    /\ siteDown = {}

\* extractPage(url, options) up to its first await: a cached page is
\* returned as it is stored, otherwise safeFetch is called.
ExtractPageCall(c, url, options) ==
    /\ epCalls[c].pc = "idle"
    /\ \A d \in EpCallIds : (EpCallOrder[1] = d /\ c # d) => epCalls[d].pc # "idle"
    /\ LET cached == getPage(pageCache, url)
       IN  epCalls' = [epCalls EXCEPT ![c] =
               IF cached.hit
               THEN [pc |-> "returned", url |-> url, options |-> options,
                     result |-> [title |-> cached.page.title, content |-> cached.page.content,
                                 length |-> cached.page.length, fromCache |-> TRUE]]
               ELSE [pc |-> "fetching", url |-> url, options |-> options,
                     result |-> NoPageResult]]
    /\ UNCHANGED <<pageCache, flightVars, concVars, netVars, sfVars, crawlVars, qmVars, utilVars>>

\* safeFetch has returned the page: it is converted under the options of the
\* call, stored in the cache and returned.
ExtractPageFetched(c) ==
    /\ epCalls[c].pc = "fetching"
    /\ LET call == epCalls[c]
           article == WebPage(normalizeUrl(call.url))
           markdownContent == htmlToMarkdown(article,
                                             markdownOptions(resolvedOptions(call.options)))
           result == [title |-> article.title, content |-> markdownContent,
                      length |-> Len(markdownContent), fromCache |-> FALSE]
       IN  /\ epCalls' = [epCalls EXCEPT ![c] = [call EXCEPT !.pc = "returned",
                                                            !.result = result]]
           /\ pageCache' = setPage(pageCache, call.url,
                                   [title |-> result.title, content |-> result.content,
                                    length |-> result.length])
    /\ UNCHANGED <<flightVars, concVars, netVars, sfVars, crawlVars, qmVars, utilVars>>

\* safeFetch throws: extractPage throws.
ExtractPageFails(c) ==
    /\ epCalls[c].pc = "fetching"
    /\ epCalls' = [epCalls EXCEPT ![c].pc = "threw"]
    /\ UNCHANGED <<pageCache, flightVars, concVars, netVars, sfVars, crawlVars, qmVars, utilVars>>

\* The time to live of an entry runs out.
CacheExpires ==
    /\ \E entry \in pageCache : pageCache' = pageCache \ {entry}
    /\ UNCHANGED <<epCalls, flightVars, concVars, netVars, sfVars, crawlVars, qmVars, utilVars>>

NextExtract ==
    \/ \E c \in EpCallIds, url \in RawUrls, options \in PipelineOptionChoices :
          ExtractPageCall(c, url, options)
    \/ \E c \in EpCallIds : ExtractPageFetched(c)
    \/ \E c \in EpCallIds : ExtractPageFails(c)
    \/ CacheExpires

SpecExtract == InitExtract /\ [][NextExtract]_vars

\* The Markdown of the page of a url under the options of a call.
ContentFor(url, options) ==
    htmlToMarkdown(WebPage(normalizeUrl(url)), markdownOptions(resolvedOptions(options)))

\* C34: the content an extractPage call returns is the Markdown of the page
\* under the options of that call, whether it comes from the cache or not:
\* at most maxLength characters with a positive maxLength, the whole Markdown
\* without one.
C34_OptionsAppliedOnEveryRetrieval ==
    \A c \in EpCallIds :
        epCalls[c].pc = "returned" =>
            LET call == epCalls[c]
            IN  /\ call.result.content = ContentFor(call.url, call.options)
                /\ call.options.maxLength > 0 =>
                       Len(call.result.content) <= call.options.maxLength
                /\ call.options.maxLength = Absent =>
                       call.result.content =
                           ContentFor(call.url, [call.options EXCEPT !.maxLength = 0])

\* The url text an entry of the cache was stored under.
StoredUrl(entry) == entry.key[2][2]

\* C35: a call of extractPage for a url whose normalized form is that of a
\* url the cache holds a page for is a cache hit.
C35_SameNormalizedFormSameEntry ==
    [][\A c \in EpCallIds :
          (/\ epCalls[c].pc = "idle"
           /\ epCalls'[c].pc # "idle"
           /\ \E entry \in pageCache :
                  normalizeUrl(StoredUrl(entry)) = normalizeUrl(epCalls'[c].url))
              => (epCalls'[c].pc = "returned" /\ epCalls'[c].result.fromCache)]_vars

(***************************************************************************)
(* crawler/bfs-crawler.ts: two crawl calls running side by side.  Each     *)
(* call keeps its BFS state in locals; the calls meet in extractPage,      *)
(* which reads and fills the page cache of the process and fetches         *)
(* through the queue.  A fetch takes any time, so the calls interleave at  *)
(* every await in every order the queue can produce.                       *)
(***************************************************************************)
CrawlIds == {"k1", "k2"}

NoEntry == [url |-> "", depth |-> 0]

\* A crawl call that has not been made.
IdleCrawl ==
    [pc |-> "idle", opts |-> Options(0, {}, {}, {}) @@ [start |-> ""], queue |-> <<>>,
     visited |-> {}, pages |-> <<>>, totalTokens |-> 0, maxDepthReached |-> 0,
     stoppedReason |-> "no_more_links", cur |-> NoEntry]

\* The token estimate of the content of each page of the web.
SiteTokens(url) == IF url = "https://a.example" THEN 500 ELSE 1

\* crawl(startUrl, options) up to its loop: the locals of the call.
newCrawl(start, o, wellFormed) ==
    [pc |-> IF wellFormed THEN "loop" ELSE "threw",
     opts |-> [maxTokens |-> IF o.maxTokens = Absent THEN defaultMaxTokens ELSE o.maxTokens,
               allowedDomains |-> o.allowedDomains,
               includePatterns |-> o.includePatterns,
               excludePatterns |-> o.excludePatterns,
               start |-> start],
     queue |-> IF wellFormed THEN <<[url |-> start, depth |-> 0]>> ELSE <<>>,
     visited |-> {}, pages |-> <<>>, totalTokens |-> 0, maxDepthReached |-> 0,
     stoppedReason |-> "no_more_links", cur |-> NoEntry]

\* The end of a loop iteration of one call: the loop test, and when the loop
\* is left the stop reason and the return.
endIteration(k, q, p, broke) ==
    [k EXCEPT !.queue = q,
              !.pages = p,
              !.cur = NoEntry,
              !.pc = IF broke \/ Len(q) = 0 THEN "returned" ELSE "loop",
              !.stoppedReason = IF broke \/ Len(q) = 0
                                THEN finalReason(IF broke THEN "token_limit" ELSE @,
                                                 k.visited, q, p)
                                ELSE @]

\* Mutant of crawlVisited: one visited set for all the calls of the process.
crawlVisited_Shared(ks, c) == UNION {ks[d].visited : d \in DOMAIN ks}

\* The visited set the loop of call c tests and fills: its own local.
crawlVisited(ks, c) == ks[c].visited

\* The head of an iteration of one call, up to the call of extractPage: the
\* entry is discarded when seen holds its url, and marked otherwise.
dequeue(k, seen) ==
    LET entry == shift(k.queue).entry
    IN  IF entry.url \in seen
        THEN endIteration([k EXCEPT !.visited = seen], shift(k.queue).rest, k.pages, FALSE)
        ELSE [k EXCEPT !.queue = shift(k.queue).rest,
                       !.visited = visitedAdd(seen, entry.url),
                       !.maxDepthReached = IF entry.depth > @ THEN entry.depth ELSE @,
                       !.cur = entry,
                       !.pc = "awaiting"]

\* The rest of the iteration when extractPage throws.
extractThrew(k) == endIteration(k, k.queue, k.pages, FALSE)

\* The rest of the iteration when extractPage returns pageResult.
extractReturned(k, pageResult) ==
    LET total == addTokens(k.totalTokens, pageResult.content)
        broke == budgetReached(total, k.opts.maxTokens)
        follow == hasHtml(pageResult) /\ ~broke
        allLinks == IF hasHtml(pageResult) THEN extractLinks(pageResult.html, k.cur.url)
                    ELSE <<>>
        filteredLinks == filterLinks(allLinks, extractDomain(k.opts.start),
                                     linkFilterOptions(k.opts))
        q == IF follow THEN pushUnvisited(k.queue, filteredLinks, k.visited, k.cur.depth + 1)
             ELSE k.queue
        page == [url |-> k.cur.url, depth |-> k.cur.depth, tokens |-> pageResult.content,
                 links_found |-> IF follow THEN Len(allLinks) ELSE 0]
    IN  endIteration([k EXCEPT !.totalTokens = total], q, Append(k.pages, page), broke)

\* The page entry extractPage stores for a result.
cachedPageOf(result) ==
    [title |-> result.title, content |-> result.content, length |-> result.length]

InitConcurrent ==
    /\ NetIdle
    /\ FetchIdle
    /\ CrawlIdle
    /\ QueueIdle
    /\ UtilIdle
    /\ bodyReading = {}
    /\ pageCache = {}
    /\ epCalls = <<>>
    /\ crawls = [c \in CrawlIds |-> IdleCrawl]
    /\ siteDown \in SUBSET StartUrls

\* crawl(start, o) is called.
ConcurrentCrawlCall(c, start, o, wellFormed) ==
    /\ crawls[c].pc = "idle"
    /\ crawls' = [crawls EXCEPT ![c] = newCrawl(start, o, wellFormed)]
    /\ UNCHANGED <<siteDown, pageCache, epCalls, flightVars, netVars, sfVars, crawlVars,
                   qmVars, utilVars>>

\* One call runs from its loop test to the await in extractPage; a page
\* found in the cache is returned by extractPage without a fetch, and the
\* iteration goes on with it.
ConcurrentDequeue(c) ==
    /\ crawls[c].pc = "loop"
    /\ LET k == dequeue(crawls[c], crawlVisited(crawls, c))
           cached == getPage(pageCache, Chars(k.cur.url))
       IN  crawls' = [crawls EXCEPT ![c] =
               IF k.pc = "awaiting" /\ cached.hit
               THEN extractReturned(k, extractPage(k.cur.url, cached.page.content, TRUE))
               ELSE k]
    /\ UNCHANGED <<siteDown, pageCache, epCalls, flightVars, netVars, sfVars, crawlVars,
                   qmVars, utilVars>>

\* The fetch of the awaited page ends: extractPage throws, or assembles the
\* result, stores it in the cache and returns it.
ConcurrentFetchEnds(c) ==
    /\ crawls[c].pc = "awaiting"
    /\ LET k == crawls[c]
           result == extractPage(k.cur.url, SiteTokens(k.cur.url), FALSE)
       IN  IF k.cur.url \in siteDown
           THEN /\ crawls' = [crawls EXCEPT ![c] = extractThrew(k)]
                /\ UNCHANGED pageCache
           ELSE /\ crawls' = [crawls EXCEPT ![c] = extractReturned(k, result)]
                /\ pageCache' = setPage(pageCache, Chars(k.cur.url), cachedPageOf(result))
    /\ UNCHANGED <<siteDown, epCalls, flightVars, netVars, sfVars, crawlVars, qmVars, utilVars>>

NextConcurrent ==
    \/ \E c \in CrawlIds, st \in StartUrls, o \in OptionChoices, w \in BOOLEAN :
          ConcurrentCrawlCall(c, st, o, w)
    \/ \E c \in CrawlIds : ConcurrentDequeue(c)
    \/ \E c \in CrawlIds : ConcurrentFetchEnds(c)
    \/ CacheExpires

SpecConcurrent == InitConcurrent /\ [][NextConcurrent]_vars

RECURSIVE runAlone(_)
\* The same call run to its end with no other call in the process: every
\* page is fetched, for a call visits no url twice.
runAlone(k) ==
    IF k.pc = "loop" THEN runAlone(dequeue(k, k.visited))
    ELSE IF k.pc = "awaiting"
    THEN runAlone(IF k.cur.url \in siteDown THEN extractThrew(k)
                  ELSE extractReturned(k, extractPage(k.cur.url, SiteTokens(k.cur.url), FALSE)))
    ELSE k

\* What the caller of crawl gets.
CrawlOutcome(k) ==
    [pc |-> k.pc, pages |-> k.pages, total_tokens |-> k.totalTokens,
     max_depth_reached |-> k.maxDepthReached, stopped_reason |-> k.stoppedReason]

\* The call as it was made, from the options it runs with.
AsCalled(k) ==
    [IdleCrawl EXCEPT !.pc = "loop", !.opts = k.opts,
                      !.queue = <<[url |-> k.opts.start, depth |-> 0]>>]

ReturnsAsAlone ==
    \A c \in CrawlIds :
        crawls[c].pc = "returned" =>
            CrawlOutcome(crawls[c]) = CrawlOutcome(runAlone(AsCalled(crawls[c])))

\* A step of one crawl call.
StepOf(c) == crawls'[c] # crawls[c]

\* C36 as stated: each of two crawl calls running together returns what it
\* would return alone against the same pages, a step of one call changes
\* nothing of the other call, and the calls share no state of the process
\* but the fetch queue: a step of a call writes no other state that the
\* other call reads.
C36_CrawlsShareOnlyTheQueue ==
    [][/\ ReturnsAsAlone'
       /\ \A c \in CrawlIds :
             StepOf(c) => /\ \A d \in CrawlIds \ {c} : crawls'[d] = crawls[d]
                          /\ pageCache' = pageCache]_vars

\* C36 amended: each of two crawl calls running together returns what it
\* would return alone against the same pages, and a step of one call changes
\* nothing of the other call; besides the fetch queue the calls share the
\* page cache, which a call fills with the pages it fetched and the other
\* call reads.
C36_CrawlsShareOnlyTheQueue_Amended ==
    [][/\ ReturnsAsAlone'
       /\ \A c \in CrawlIds :
             StepOf(c) => \A d \in CrawlIds \ {c} : crawls'[d] = crawls[d]]_vars

\* Both calls started at the same url while the other was under way, and
\* the second got the page from the cache.
C36_Witness ==
    /\ \A c \in CrawlIds : crawls[c].pc = "returned" /\ Len(crawls[c].pages) = 1
    /\ crawls["k1"].opts.start = crawls["k2"].opts.start
    /\ Cardinality(pageCache) = 1

(***************************************************************************)
(* services/queue.ts: QueueManager under fair scheduling.  The event loop  *)
(* runs every timer that is due and every continuation of a settled        *)
(* promise, and every task that was started terminates.                    *)
(***************************************************************************)
\* Time passes beyond the last tick of the clock: the clock stays where it is and
\* every interval that was still running has elapsed; the interval timers
\* of the domain queues fire.
LateTick(order) ==
    /\ now + ClockStep > MaxTime
    /\ \E d \in QueueDomains : domainQueues[d].intervalEnd > now
    /\ QueueBecomes(StartAll([QueueState EXCEPT !.dq =
                                 [d \in QueueDomains |->
                                     [domainQueues[d] EXCEPT !.intervalEnd =
                                         IF @ > now THEN now ELSE @]]],
                             order, globalConcurrency, now))
    /\ UNCHANGED <<globalConcurrency, now, drainVars, netVars, sfVars, crawlVars, utilVars,
                   svcVars>>

\* The orders in which the timers of the two domains can fire.
LiveOrders ==
    {o \in [1..Cardinality(DrainDomains) -> DrainDomains] :
        \A i, j \in 1..Cardinality(DrainDomains) : i # j => o[i] # o[j]}

\* The timers fire.
TimePasses == \E order \in LiveOrders : ClockTick(order) \/ LateTick(order)

\* The task terminates.
Terminates(t) == \E outcome \in {"resolved", "rejected"} : TaskSettles(t, outcome)

\* The tasks passed to enqueue in a run of the fair manager.
MaxLiveTasks == 3

EnqueuedCount == Cardinality({t \in TaskIds : tasks[t].state # "new"})

\* enqueue(d, fn), for the tasks of the run.
LiveEnqueue(d) ==
    /\ EnqueuedCount < MaxLiveTasks
    /\ Enqueue(d)

\* Callers of two domains that never call clearPending or drain.
NextLive ==
    \/ \E d \in DrainDomains : LiveEnqueue(d)
    \/ \E t \in TaskIds : Terminates(t)
    \/ TimePasses

\* Something that is due happens.  Every such step uses up a task or a
\* timer, so no task and no timer can be passed over for ever.
Due == TimePasses \/ \E t \in TaskIds : Terminates(t)

FairLive == WF_vars(Due)

SpecLive == InitQueue /\ [][NextLive]_vars /\ FairLive

Settled(t) ==
    /\ tasks[t].state \in {"resolved", "rejected"}
    /\ tasks[t].promise.kind = IF tasks[t].state = "resolved" THEN "fulfilled" ELSE "rejected"

\* C38: when every started task terminates and clearPending is never
\* called, every task passed to enqueue eventually starts and the promise
\* of its enqueue call eventually settles, whether the tasks before it in
\* its domain succeeded or failed: at every moment there is a later moment
\* at which every task passed to enqueue so far has run and its promise has
\* settled.
C38_EveryTaskStartsAndSettles ==
    []<>(\A t \in TaskIds : tasks[t].state # "new" => Settled(t))

\* A task has settled after waiting behind a task of its domain that failed.
C38_Witness ==
    \E t, u \in TaskIds :
        /\ tasks[t].state = "rejected"
        /\ tasks[u].domain = tasks[t].domain
        /\ tasks[u].startedAt >= tasks[t].startedAt + perDomainInterval
        /\ Settled(u)
        /\ now = MaxTime

\* The fair manager whose callers also call clearPending.
NextClearLive ==
    \/ \E d \in DrainDomains : LiveEnqueue(d)
    \/ \E t \in TaskIds : Terminates(t)
    \/ TimePasses
    \/ ClearPending

SpecClearLive == InitQueue /\ [][NextClearLive]_vars /\ FairLive

\* No task holds the slot of a domain and no task waits in a queue.
GatesFree ==
    /\ \A d \in QueueDomains : ~DomainPending(tasks, d)
    /\ \A t \in TaskIds : tasks[t].state \notin {"domainWaiting", "globalWaiting"}

\* C37: after clearPending() has been called while tasks were waiting, the
\* queue stays usable: every domain gate becomes free again and every task
\* enqueued afterwards starts, so that at every moment there is a later
\* moment at which no task holds the slot of a domain and none waits.
C37_UsableAfterClearPending == []<>GatesFree

(***************************************************************************)
(* crawl when every call of extractPage returns or throws                  *)
(***************************************************************************)
\* One iteration of the loop of crawl, with extractPage returning or throwing.
CrawlIteration ==
    \/ CrawlSkipVisited
    \/ CrawlExtractFails
    \/ \E t \in PageTokens :
          \/ CrawlExtractOk(t, FALSE, <<>>)
          \/ \E l \in LinkTargets : CrawlExtractOk(t, TRUE, l)

SpecCrawlFair == InitCrawl /\ [][NextCrawl]_vars /\ WF_vars(CrawlIteration)

\* The iteration discards its entry: the url was visited already.
DiscardsEntry ==
    /\ Head(queue).url \in visited
    /\ visited' = visited
    /\ pages' = pages
    /\ queue' = Tail(queue)

\* The iteration marks a url that was not visited yet.
MarksNewUrl ==
    /\ Head(queue).url \notin visited
    /\ visited' = visited \cup {Head(queue).url}
    /\ extractCalls' = [extractCalls EXCEPT ![Head(queue).url] = @ + 1]

\* C39: a crawl over a finite set of urls ends once every call of
\* extractPage returns or throws; each iteration of its loop either
\* discards a frontier entry whose url is visited already or adds a new url
\* to the visited set; the visited set only grows; and a cycle of links
\* makes no url be processed again or enqueued without bound: each url is
\* extracted at most once, and the frontier holds at most the seed and the
\* links of the pages extracted so far.
C39_CrawlTerminates ==
    /\ (crawlPc = "loop") ~> (crawlPc \in {"returned", "threw"})
    /\ [][crawlPc = "loop" => /\ DiscardsEntry \/ MarksNewUrl
                              /\ visited \subseteq visited']_vars
    /\ [](crawlPc \in {"loop", "returned"} =>
             /\ \A u \in CrawlUrls : extractCalls[u] <= 1
             /\ Len(queue) <= 1 + MaxLinks * Len(pages)
             /\ visited \subseteq CrawlUrls)

\* Pages link to each other and back to the seed: a url that was found on
\* two pages before it was visited is at the head of the frontier again,
\* visited by now, and the crawl ends with every url of the web visited once.
C39_Witness ==
    /\ crawlPc = "loop"
    /\ Len(pages) >= 3
    /\ Head(queue).url \in visited
    /\ Head(queue).depth = 2
    /\ visited = CrawlUrls
====
